---------------------------- MODULE Spec2Model ----------------------------
(***************************************************************************)
(* Acquisition / verification loop of the SMB intelligence pipeline:      *)
(* query generation (phases/query_builder.py), the source acquirer        *)
(* (phases/phase1_crawl.py, phases/database.py) and the verifier          *)
(* (phases/phase3_verify.py).                                             *)
(*                                                                         *)
(* Strings are sequences: a keyword and a query text are sequences of      *)
(* words, a quote is a sequence of characters.  URLs and page texts, which *)
(* the code cuts at 500 characters, are kept run-length encoded: a         *)
(* sequence of runs [ch, n] in which neighbouring runs differ in ch, so    *)
(* that two texts are equal exactly when their encodings are.  Floats      *)
(* that the code compares with thresholds are kept as exact fractions      *)
(* [num, den].                                                             *)
(***************************************************************************)
EXTENDS Integers, Sequences, FiniteSets, TLC

VARIABLES
    \* ---- query generator / query_log (query_builder.py, database.py) ----
    keywords,       \* config/keywords.json as read by load_keywords
    performance,    \* keyword_history rows seen by get_keyword_performance
    query_log,      \* table query_log, in insertion order
    today,          \* the UTC date, as a day number
    core,           \* generate_run_queries: local `core` after the cooldown filter
    discovery,      \* generate_run_queries: local `discovery` after the filter
    queries,        \* run_crawl: the list returned by generate_run_queries
    qpos,           \* run_crawl: index of the next query of `queries` to execute
    \* ---- source acquirer (phase1_crawl.py, database.py) ----
    raw_crawl,      \* table raw_crawl, in insertion order
    stats,          \* run_crawl: the stats dict
    last_store,     \* what the last store_crawl_result call got and returned
    \* ---- verifier (phase3_verify.py) ----
    extracted_signals,  \* table extracted_signals, in insertion order (id = index)
    verified_signals,   \* table verified_signals, in insertion order
    unverified,     \* run_verification: rows of the SELECT still to be processed
    vpc,            \* run_verification: "idle" or "loop"
    \* ---- fuzzy_match as a function under test ----
    fm_quote, fm_source, fm_result,
    \* ---- keyword evolution (keyword_evolution.py, run_pipeline.py) ----
    keyword_history,    \* table keyword_history, in insertion order
    evolve_last,        \* the last call on the keyword file or the table
    \* ---- credibility filter (phase2_5_credibility.py) ----
    cred_url, cred_html,    \* one unchecked row: source_url and raw_html
    cred_result,            \* what run_credibility_check stored for it
    \* ---- validate_schema as a function under test (llm_utils.py) ----
    vs_data, vs_schema, vs_result,
    \* ---- transactions (database.py, phase3_verify.py) ----
    committed_results,  \* rows of verified_signals that a commit has covered
    \* ---- one run of main (run_pipeline.py) ----
    args,           \* the parsed command line
    run_env,        \* what the run finds: the API key, the keyword file, an analysis
    ppc,            \* where main is: between calls, in a runner, done, failed
    events,         \* the starts and ends of the runners, in order
    work,           \* the kinds of work done so far in this run
    analysis,       \* what run_phase4 returned, or the previous analysis
    \* ---- a run with failing items (phase1_crawl.py, phase3_verify.py) ----
    lpc,            \* where the run is: in which loop, or done
    results,        \* run_crawl: the results of the current query still to fetch
    \* ---- the checks of run_verification (phase3_verify.py) ----
    calls,          \* the checks made so far, each with the candidate's id
    \* ---- run_phase2 (run_pipeline.py) ----
    phase2_rows,    \* the captures of the SELECT still to be extracted
    \* ---- the sleeps of run_crawl (phase1_crawl.py) ----
    zero_run,       \* how many of the latest queries in a row returned no result
    sleeps          \* the sleeps taken since the last search_google call

vars == <<keywords, performance, query_log, today, core, discovery, queries,
          qpos, raw_crawl, stats, last_store, extracted_signals,
          verified_signals, unverified, vpc, fm_quote, fm_source, fm_result,
          keyword_history, evolve_last, cred_url, cred_html, cred_result,
          vs_data, vs_schema, vs_result, committed_results,
          args, run_env, ppc, events, work, analysis, lpc, results, calls,
          phase2_rows, zero_run, sleeps>>

queryVars  == <<keywords, performance, query_log, today, core, discovery,
                queries, qpos>>
crawlVars  == <<raw_crawl, stats, last_store>>
verifyVars == <<extracted_signals, verified_signals, unverified, vpc>>
fuzzyVars  == <<fm_quote, fm_source, fm_result>>
evolveVars == <<keyword_history, evolve_last>>

\* the components that follow the verifier
credVars   == <<cred_url, cred_html, cred_result>>
schemaVars == <<vs_data, vs_schema, vs_result>>
durableVars == <<committed_results>>
pipeVars   == <<args, run_env, ppc, events, work, analysis>>
runVars    == <<lpc, results>>
callVars   == <<calls>>
extractVars == <<phase2_rows>>
pauseVars  == <<zero_run, sleeps>>
laterVars  == <<credVars, schemaVars, durableVars, pipeVars, runVars, callVars, extractVars,
               pauseVars>>
moreVars   == <<evolveVars, laterVars>>

-----------------------------------------------------------------------------
(* Generic helpers: Python list operations.                                *)

Min(a, b) == IF a <= b THEN a ELSE b
Max(a, b) == IF a >= b THEN a ELSE b

Range(s) == { s[i] : i \in 1..Len(s) }

\* s[:n] for n >= 0
Take(s, n) == SubSeq(s, 1, Min(n, Len(s)))

\* s[n:] (0-based n >= 0)
Drop(s, n) == SubSeq(s, n + 1, Len(s))

\* number of positions of s holding v
Count(s, v) == Cardinality({ i \in 1..Len(s) : s[i] = v })

RECURSIVE Flatten(_)
Flatten(ss) == IF ss = << >> THEN << >> ELSE Head(ss) \o Flatten(Tail(ss))

\* random.sample(s, k): every ordered choice of k distinct positions of s
Samples(s, k) ==
    { [i \in 1..k |-> s[f[i]]] :
        f \in { g \in [1..k -> 1..Len(s)] :
                  \A i, j \in 1..k : i # j => g[i] # g[j] } }

\* random.shuffle(s); s[:count] -- every list of min(count, len(s)) elements
\* that uses no element more often than s holds it
ShufflePrefix(s, count) ==
    LET k == Min(count, Len(s))
    IN  { t \in [1..k -> Range(s)] : \A v \in Range(s) : Count(t, v) <= Count(s, v) }


-----------------------------------------------------------------------------
(* Run-length encoded strings.                                             *)

Run(c, k) == [ch |-> c, n |-> k]

\* len(t)
RECURSIVE StrLen(_)
StrLen(t) == IF t = << >> THEN 0 ELSE Head(t).n + StrLen(Tail(t))

\* t[:k]
RECURSIVE StrTake(_, _)
StrTake(t, k) ==
    IF t = << >> \/ k <= 0 THEN << >>
    ELSE IF Head(t).n <= k THEN <<Head(t)>> \o StrTake(Tail(t), k - Head(t).n)
         ELSE <<Run(Head(t).ch, k)>>

\* a + b
StrCat(a, b) ==
    IF a = << >> THEN b
    ELSE IF b = << >> THEN a
    ELSE IF a[Len(a)].ch = b[1].ch
         THEN SubSeq(a, 1, Len(a) - 1) \o <<Run(b[1].ch, a[Len(a)].n + b[1].n)>> \o Tail(b)
         ELSE a \o b

\* the characters of t, one by one
Chars(t) == Flatten([i \in 1..Len(t) |-> [j \in 1..t[i].n |-> t[i].ch]])

-----------------------------------------------------------------------------
(* Query builder: phases/query_builder.py                                  *)

\* Python None where a list is expected
None == <<"None">>

\* SITE_DOMAINS.get(site_key), for the site keys the builders use
SITE_DOMAINS(site_key) ==
    CASE site_key = "linkedin"        -> <<"linkedin.com">>
      [] site_key = "general_swedish" -> << >>
      [] site_key = "nordic_business" -> <<"breakit.se", "di.se", "nyteknik.se", "foretagarna.se">>
      [] site_key = "forums"          -> <<"reddit.com", "flashback.org">>
      [] OTHER                        -> None

\* one query dict
QueryDict(text, type, site, domains, used) ==
    [query |-> text, type |-> type, site |-> site,
     include_domains |-> domains, keywords_used |-> used]

\* a fraction num/den compared with 0, and int(3 * (num/den))
Frac(n, d) == [num |-> n, den |-> d]
IntTimes3(w) == (3 * w.num) \div w.den

\* get_recent_queries with the cutoff day itself left out of the window
get_recent_queries_exclusive(log, now, days) ==
    { log[i].query_text : i \in { j \in 1..Len(log) : log[j].run_date > now - days } }

\* get_recent_queries: the texts logged on or after today - days
get_recent_queries(log, now, days) ==
    { log[i].query_text : i \in { j \in 1..Len(log) : log[j].run_date >= now - days } }

\* build_core_queries, pattern 1: pain + business context, open web
CorePattern1(kw) ==
    LET pain == kw.core_keywords.pain_signals
        biz  == kw.core_keywords.business_context
    IN  Flatten([i \in 1..Len(pain) |->
                  [j \in 1..Len(biz) |->
                     QueryDict(pain[i] \o biz[j] \o <<"Sverige">>, "core",
                               "general_swedish", None, <<pain[i], biz[j]>>)]])

\* pattern 2: for each task, random.sample(pain, min(4, len(pain))), each with a
\* random site of two
CorePattern2(kw) ==
    LET pain  == kw.core_keywords.pain_signals
        tasks == kw.core_keywords.specific_tasks
        k     == Min(4, Len(pain))
    IN  { Flatten([i \in 1..Len(tasks) |->
                    [j \in 1..k |->
                       QueryDict(tasks[i] \o smp[i][j] \o <<"företag">>, "core",
                                 site[i][j], SITE_DOMAINS(site[i][j]),
                                 <<tasks[i], smp[i][j]>>)]]) :
            smp  \in [1..Len(tasks) -> Samples(pain, k)],
            site \in [1..Len(tasks) -> [1..k -> {"nordic_business", "general_swedish"}]] }

\* pattern 3: AI awareness + business context, each with a random site of three
CorePattern3(kw) ==
    LET ai  == kw.core_keywords.ai_awareness
        biz == kw.core_keywords.business_context
    IN  { Flatten([i \in 1..Len(ai) |->
                    [j \in 1..Len(biz) |->
                       QueryDict(ai[i] \o biz[j], "core", site[i][j],
                                 SITE_DOMAINS(site[i][j]), <<ai[i], biz[j]>>)]]) :
            site \in [1..Len(ai) ->
                        [1..Len(biz) -> {"nordic_business", "linkedin", "general_swedish"}]] }

\* pattern 4: for each pain term, random.sample(tasks, min(3, len(tasks))), forums
CorePattern4(kw) ==
    LET pain  == kw.core_keywords.pain_signals
        tasks == kw.core_keywords.specific_tasks
        k     == Min(3, Len(tasks))
    IN  { Flatten([i \in 1..Len(pain) |->
                    [j \in 1..k |->
                       QueryDict(pain[i] \o smp[i][j], "core", "forums",
                                 SITE_DOMAINS("forums"), <<pain[i], smp[i][j]>>)]]) :
            smp \in [1..Len(pain) -> Samples(tasks, k)] }

\* build_core_queries(keywords, site_targets, count): every list it can return
build_core_queries(kw, count) ==
    UNION { ShufflePrefix(CorePattern1(kw) \o p2 \o p3 \o p4, count) :
              p2 \in CorePattern2(kw), p3 \in CorePattern3(kw), p4 \in CorePattern4(kw) }

\* the replication factor int(weight * 3) of one discovery keyword
DiscoveryWeight3(perf, k) ==
    IF k \notin DOMAIN perf \/ perf[k].times_used = 0
    THEN IntTimes3(Frac(3, 2))                                    \* weight = 1.5
    ELSE IF perf[k].hit_rate.num > 0
         THEN IntTimes3(Frac(perf[k].hit_rate.den + perf[k].hit_rate.num,
                             perf[k].hit_rate.den))               \* 1.0 + hit_rate
         ELSE IntTimes3(Frac(3, 10))                              \* weight = 0.3

\* weighted.extend([kw] * max(1, int(weight * 3))) for every keyword
WeightedDiscovery(all, perf) ==
    IF DOMAIN perf = {} THEN all
    ELSE Flatten([i \in 1..Len(all) |->
                    [j \in 1..Max(1, DiscoveryWeight3(perf, all[i])) |-> all[i]]])

\* build_discovery_queries(keywords, site_targets, count, performance)
build_discovery_queries(kw, count, perf) ==
    LET biz == kw.core_keywords.business_context
        all == WeightedDiscovery(kw.discovery_keywords.from_signals
                                   \o kw.discovery_keywords.adjacent_terms, perf)
        n   == Len(all)
        p2  == [i \in 1..n |-> QueryDict(all[i] \o <<"företag">>, "discovery", "forums",
                                         SITE_DOMAINS("forums"), <<all[i]>>)]
        p3  == [i \in 1..n |-> QueryDict(all[i] \o <<"svensk", "företag">>, "discovery",
                                         "nordic_business", SITE_DOMAINS("nordic_business"),
                                         <<all[i]>>)]
    IN  IF n = 0 THEN { << >> }
        ELSE UNION { ShufflePrefix(
                        [i \in 1..n |-> QueryDict(all[i] \o b[i] \o <<"Sverige">>, "discovery",
                                                  "general_swedish", None, <<all[i], b[i]>>)]
                          \o p2 \o p3, count) :
                      b \in [1..n -> Range(biz)] }

\* the cooldown filter: [q for q in pool if q["query"] not in recent]
RECURSIVE NotRecent(_, _)
NotRecent(pool, recent) ==
    IF pool = << >> THEN << >>
    ELSE IF Head(pool).query \notin recent
         THEN <<Head(pool)>> \o NotRecent(Tail(pool), recent)
         ELSE NotRecent(Tail(pool), recent)

\* [q for q in pool if q not in final]
RECURSIVE NotIn(_, _)
NotIn(pool, final) ==
    IF pool = << >> THEN << >>
    ELSE IF Head(pool) \notin Range(final)
         THEN <<Head(pool)>> \o NotIn(Tail(pool), final)
         ELSE NotIn(Tail(pool), final)

\* int(total * core_ratio), the ratio given in percent
CoreCount(rotation) == (rotation.queries_per_run * rotation.core_ratio_pct) \div 100
DiscoveryCount(rotation) == rotation.queries_per_run - CoreCount(rotation)

\* SelectFinal taking one core query more than its quota
SelectFinal_core_overrun(c, d, total, core_count, discovery_count) ==
    Take(Take(c, core_count + 1) \o Take(d, discovery_count), total)

\* generate_run_queries from the filtered pools on: selection, backfill, cut
SelectFinal(c, d, total, core_count, discovery_count) ==
    LET first     == Take(c, core_count) \o Take(d, discovery_count)
        remaining == NotIn(c \o d, first)
        filled    == IF Len(first) < total
                     THEN first \o Take(remaining, total - Len(first))
                     ELSE first
    IN  Take(filled, total)


-----------------------------------------------------------------------------
(* Inputs of the query generator: keyword files and performance tables.    *)

MaxLog == 4     \* query_log rows: no run starts that could exceed it
MaxDay == 2     \* days the clock advances

\* a one-word keyword
W(x) == <<x>>

KeywordFile(pain, ai, biz, tasks, from_signals, adjacent, n, pct, days) ==
    [core_keywords |-> [pain_signals |-> pain, ai_awareness |-> ai,
                        business_context |-> biz, specific_tasks |-> tasks],
     discovery_keywords |-> [from_signals |-> from_signals, adjacent_terms |-> adjacent],
     rotation |-> [queries_per_run |-> n, core_ratio_pct |-> pct,
                   cooldown_days_before_reuse |-> days]]

\* one keyword_history row as get_keyword_performance returns it
Perf(used, num, den) == [hit_rate |-> Frac(num, den), times_used |-> used]

\* The stores a run starts from: a keyword file and the performance table.
\*  1: quotas (1,1), cooldown 1 day; one discovery term used without success
\*     (weight 0.3), one used twice with one success (weight 1.5)
\*  2: quotas (1,2), cooldown 0 days; the discovery term tracked but never used
\*  3: quotas (2,1), three core candidates, no performance rows
\*  4: quotas (2,1), one core candidate only: the core bucket is short
\*  5: quotas (1,1), one core candidate: the second run of a day has none left
Scenarios ==
    { <<KeywordFile(<<W("tidsbrist")>>, <<W("AI")>>, <<W("småföretag")>>, << >>,
                    <<W("fakturering")>>, <<W("bokföring")>>, 2, 50, 1),
        [k \in {W("fakturering"), W("bokföring")} |->
            IF k = W("fakturering") THEN Perf(1, 0, 1) ELSE Perf(2, 1, 2)]>>,
      <<KeywordFile(<<W("tidsbrist")>>, << >>, <<W("småföretag")>>, << >>,
                    <<W("fakturering")>>, << >>, 3, 34, 0),
        [k \in {W("fakturering")} |-> Perf(0, 0, 1)]>>,
      <<KeywordFile(<<W("tidsbrist")>>, << >>, <<W("småföretag")>>, <<W("offert")>>,
                    <<W("fakturering")>>, << >>, 3, 67, 1),
        [k \in {} |-> Perf(0, 0, 1)]>>,
      <<KeywordFile(<<W("tidsbrist")>>, << >>, <<W("småföretag")>>, << >>,
                    << >>, <<W("fakturering")>>, 3, 67, 1),
        [k \in {} |-> Perf(0, 0, 1)]>>,
      <<KeywordFile(<<W("tidsbrist")>>, << >>, <<W("småföretag")>>, << >>,
                    <<W("fakturering")>>, << >>, 2, 50, 1),
        [k \in {} |-> Perf(0, 0, 1)]>> }

-----------------------------------------------------------------------------
(* Query generation and the logging half of run_crawl.                      *)

QueryInit ==
    /\ \E sc \in Scenarios : keywords = sc[1] /\ performance = sc[2]
    /\ query_log = << >>
    /\ today = 0
    /\ core = << >>
    /\ discovery = << >>
    /\ queries = << >>
    /\ qpos = 0

\* run_crawl up to the loop: queries = generate_run_queries(conn)
GenerateRunQueries ==
    /\ qpos = 0
    /\ Len(query_log) + keywords.rotation.queries_per_run <= MaxLog
    /\ LET rotation == keywords.rotation
           recent   == get_recent_queries(query_log, today,
                                          rotation.cooldown_days_before_reuse)
       IN  \E c \in build_core_queries(keywords, CoreCount(rotation) * 3),
              d \in build_discovery_queries(keywords, DiscoveryCount(rotation) * 3,
                                            performance) :
             /\ core' = NotRecent(c, recent)
             /\ discovery' = NotRecent(d, recent)
             /\ queries' = SelectFinal(core', discovery', rotation.queries_per_run,
                                       CoreCount(rotation), DiscoveryCount(rotation))
    /\ qpos' = 1
    /\ UNCHANGED <<keywords, performance, query_log, today>>

\* log_query(conn, query_text, keyword_type, site, len(results)): one row, dated today
log_query(log, q, now) ==
    Append(log, [query_text |-> q.query, keyword_type |-> q.type, run_date |-> now])

\* one iteration of run_crawl's loop over the queries, as far as query_log goes;
\* the pools were locals of generate_run_queries and are gone by now
ExecuteQuery ==
    /\ qpos >= 1
    /\ qpos <= Len(queries)
    /\ query_log' = log_query(query_log, queries[qpos], today)
    /\ qpos' = qpos + 1
    /\ core' = << >>
    /\ discovery' = << >>
    /\ UNCHANGED <<keywords, performance, today, queries>>

\* the loop is over: run_crawl returns
FinishCrawl ==
    /\ qpos = Len(queries) + 1
    /\ qpos' = 0
    /\ core' = << >>
    /\ discovery' = << >>
    /\ UNCHANGED <<keywords, performance, query_log, today, queries>>

\* midnight UTC passes
AdvanceDay ==
    /\ today < MaxDay
    /\ today' = today + 1
    /\ UNCHANGED <<keywords, performance, query_log, core, discovery, queries, qpos>>

-----------------------------------------------------------------------------
(* Capture store and the result loop of run_crawl:                          *)
(* phases/database.py, phases/phase1_crawl.py                               *)

HashPrefix == 500    \* content[:500] in make_source_hash
MinTextLen == 100    \* len(page["raw_text"]) < 100 in run_crawl

MaxRows  == 2        \* raw_crawl rows explored
MaxSkips == 1        \* duplicates and errors counted per run explored

\* make_source_hash over the whole content instead of its first 500 characters
make_source_hash_whole(url, content) == StrCat(StrCat(url, <<Run("|", 1)>>), content)

\* make_source_hash(url, content): the digest is kept as the string it is
\* taken of, f"{url}|{content[:500]}"; SHA-256 cut to 16 hex digits is taken
\* to be free of collisions
make_source_hash(url, content) ==
    StrCat(StrCat(url, <<Run("|", 1)>>), StrTake(content, HashPrefix))

\* the INSERT of store_crawl_result meets UNIQUE(source_hash)
HashPresent(rc, h) == \E i \in 1..Len(rc) : rc[i].source_hash = h

\* store_crawl_result: the table afterwards and the value returned (the hash,
\* or None after sqlite3.IntegrityError); of a row, the hash, the url and the
\* text are kept
store_crawl_result(rc, url, raw_text) ==
    LET source_hash == make_source_hash(url, raw_text)
    IN  IF HashPresent(rc, source_hash)
        THEN [rows |-> rc, ret |-> None]
        ELSE [rows |-> Append(rc, [source_hash |-> source_hash, source_url |-> url,
                                   raw_text |-> raw_text]),
              ret |-> source_hash]

\* the known-URL test of run_crawl left out
UrlAlreadyCrawled_unchecked(rc, url) == FALSE

\* run_crawl: SELECT 1 FROM raw_crawl WHERE source_url = ?
UrlAlreadyCrawled(rc, url) == \E i \in 1..Len(rc) : rc[i].source_url = url

\* page texts: three of 501 characters (the second agrees with the first on
\* its first 500 characters, the third differs at character 500), one of
\* exactly 100 characters, the same behind "a|", and one of 99 characters
PageTexts ==
    { <<Run("a", 501)>>,
      <<Run("a", 500), Run("b", 1)>>,
      <<Run("a", 499), Run("b", 1), Run("a", 1)>>,
      <<Run("a", 100)>>,
      <<Run("a", 1), Run("|", 1), Run("a", 100)>>,
      <<Run("a", 99)>> }

\* two URLs; "u" followed by "a|aaa..." reads like "u|a" followed by "aaa..."
Urls == { <<Run("u", 1)>>, <<Run("u", 1), Run("|", 1), Run("a", 1)>> }

\* what fetch_page returns: an error (HTTP status, content type, exception)
\* with empty text, or the cleaned text
Pages ==
    { [error |-> TRUE, raw_text |-> << >>, status |-> 404] }
      \cup { [error |-> FALSE, raw_text |-> t, status |-> 200] : t \in PageTexts \cup {<< >>} }

NewStats == [queries_run |-> 0, results_found |-> 0, pages_fetched |-> 0,
             pages_stored |-> 0, duplicates |-> 0, errors |-> 0]

NoCall == [op |-> "none", url |-> << >>, raw_text |-> << >>, ret |-> None]

CrawlInit ==
    /\ raw_crawl = << >>
    /\ stats = NewStats
    /\ last_store = NoCall

\* one iteration of `for result in results[:5]` of run_crawl
CrawlResultEffect(url, page) ==
    /\ IF UrlAlreadyCrawled(raw_crawl, url)
       THEN /\ stats' = [stats EXCEPT !.duplicates = @ + 1]
            /\ last_store' = [op |-> "crawl_known_url", url |-> url,
                              raw_text |-> page.raw_text, ret |-> None]
            /\ UNCHANGED raw_crawl
       ELSE IF page.error \/ StrLen(page.raw_text) < MinTextLen
       THEN /\ stats' = [stats EXCEPT !.errors = @ + (IF page.error THEN 1 ELSE 0)]
            /\ last_store' = [op |-> "crawl_skipped", url |-> url,
                              raw_text |-> page.raw_text, ret |-> None]
            /\ UNCHANGED raw_crawl
       ELSE LET res == store_crawl_result(raw_crawl, url, page.raw_text)
            IN  /\ raw_crawl' = res.rows
                /\ stats' = IF res.ret # None
                            THEN [stats EXCEPT !.pages_fetched = @ + 1, !.pages_stored = @ + 1]
                            ELSE [stats EXCEPT !.pages_fetched = @ + 1, !.duplicates = @ + 1]
                /\ last_store' = [op |-> "crawl_store", url |-> url,
                                  raw_text |-> page.raw_text, ret |-> res.ret]

\* the iteration, within the bounds of the model
CrawlResult(url, page) ==
    /\ CrawlResultEffect(url, page)
    /\ Len(raw_crawl') <= MaxRows
    /\ stats'.duplicates + stats'.errors <= MaxSkips

RunCrawlResult ==
    \E url \in Urls, page \in Pages : CrawlResult(url, page)

\* store_crawl_result called on its own with a page of any text
StoreCrawlResult ==
    \E url \in Urls, raw_text \in PageTexts :
        /\ LET res == store_crawl_result(raw_crawl, url, raw_text)
           IN  /\ raw_crawl' = res.rows
               /\ last_store' = [op |-> "store", url |-> url, raw_text |-> raw_text,
                                 ret |-> res.ret]
        /\ Len(raw_crawl') <= MaxRows
        /\ UNCHANGED stats

-----------------------------------------------------------------------------
(* Quote matching: phases/phase3_verify.py, fuzzy_match                     *)

Threshold       == Frac(65, 100)   \* threshold: float = 0.65
WindowOvershoot == 50              \* source_clean[i:i + quote_len + 50]
\* the fallback for quotes of 50 characters and more
HalfQuoteMin_inclusive == 50 - 1

HalfQuoteMin    == 50              \* len(quote_clean) > 50

FracGE(x, y) == x.num * y.den >= y.num * x.den
FracGT(x, y) == x.num * y.den > y.num * x.den

\* str.isspace for the characters in use
IsSpace(c) == c \in {" ", "\t", "\n"}

\* str.lower for the characters in use
LowerChar(c) ==
    CASE c = "A" -> "a" [] c = "B" -> "b" [] c = "C" -> "c" [] c = "D" -> "d"
      [] c = "X" -> "x" [] c = "Y" -> "y" [] OTHER -> c

Lower(s) == [i \in 1..Len(s) |-> LowerChar(s[i])]

\* str.strip
RECURSIVE LStrip(_)
LStrip(s) == IF s # << >> /\ IsSpace(Head(s)) THEN LStrip(Tail(s)) ELSE s
RECURSIVE RStrip(_)
RStrip(s) ==
    IF s # << >> /\ IsSpace(s[Len(s)]) THEN RStrip(SubSeq(s, 1, Len(s) - 1)) ELSE s
Strip(s) == RStrip(LStrip(s))

\* re.sub(r'\s+', ' ', s): every maximal run of whitespace becomes one blank
RECURSIVE CollapseSpace(_)
CollapseSpace(s) ==
    IF s = << >> THEN << >>
    ELSE IF IsSpace(Head(s)) THEN <<" ">> \o CollapseSpace(LStrip(s))
         ELSE <<Head(s)>> \o CollapseSpace(Tail(s))

\* normalisation that keeps the case of the letters
Clean_keep_case(s) == CollapseSpace(Strip(s))

\* re.sub(r'\s+', ' ', s.strip().lower())
Clean(s) == CollapseSpace(Lower(Strip(s)))

\* a in b, for strings
IsSubstring(a, b) ==
    \E i \in 0..(Len(b) - Len(a)) : SubSeq(b, i + 1, i + Len(a)) = a

\* the length of the longest common run that starts at a[i] and b[j] (0-based)
\* and stays inside a[:ahi] and b[:bhi]
RECURSIVE CommonRun(_, _, _, _, _, _)
CommonRun(a, b, i, j, ahi, bhi) ==
    IF i < ahi /\ j < bhi /\ a[i + 1] = b[j + 1]
    THEN 1 + CommonRun(a, b, i + 1, j + 1, ahi, bhi)
    ELSE 0

\* SequenceMatcher.find_longest_match without junk (b shorter than 200, so
\* autojunk does not apply), as <<i, j, k>>: the longest block of
\* a[alo:ahi] and b[blo:bhi], of those the one starting earliest in a, of
\* those the one starting earliest in b; <<alo, blo, 0>> without any match
LongestMatch(a, b, alo, ahi, blo, bhi) ==
    LET run == [p \in (alo..(ahi - 1)) \X (blo..(bhi - 1)) |->
                   CommonRun(a, b, p[1], p[2], ahi, bhi)]
        k == CHOOSE n \in 0..(ahi - alo) :
                /\ \A p \in DOMAIN run : run[p] <= n
                /\ n > 0 => \E p \in DOMAIN run : run[p] = n
        i == CHOOSE x \in alo..(ahi - 1) :
                /\ \E y \in blo..(bhi - 1) : run[<<x, y>>] = k
                /\ \A x2 \in alo..(x - 1), y \in blo..(bhi - 1) : run[<<x2, y>>] < k
        j == CHOOSE y \in blo..(bhi - 1) :
                /\ run[<<i, y>>] = k
                /\ \A y2 \in blo..(y - 1) : run[<<i, y2>>] < k
    IN  IF alo >= ahi \/ blo >= bhi \/ k = 0 THEN <<alo, blo, 0>> ELSE <<i, j, k>>

\* the total size of SequenceMatcher.get_matching_blocks: the longest match,
\* then the same to its left and to its right
RECURSIVE MatchedSize(_, _, _, _, _, _)
MatchedSize(a, b, alo, ahi, blo, bhi) ==
    LET m == LongestMatch(a, b, alo, ahi, blo, bhi)
    IN  IF m[3] = 0 THEN 0
        ELSE m[3] + MatchedSize(a, b, alo, m[1], blo, m[2])
                  + MatchedSize(a, b, m[1] + m[3], ahi, m[2] + m[3], bhi)

\* SequenceMatcher(None, a, b).ratio() = 2.0 * matches / (len(a) + len(b))
Ratio(a, b) ==
    IF Len(a) + Len(b) = 0 THEN Frac(1, 1)
    ELSE Frac(2 * MatchedSize(a, b, 0, Len(a), 0, Len(b)), Len(a) + Len(b))

\* the sliding window loop from position i on: the first window at or above
\* the threshold ends it, otherwise the best ratio is kept
RECURSIVE WindowScan(_, _, _, _, _)
WindowScan(quote_clean, source_clean, i, best_ratio, threshold) ==
    LET quote_len == Len(quote_clean)
        step      == Max(1, quote_len \div 4)
    IN  IF i >= Len(source_clean) - quote_len + 1
        THEN [hit |-> FALSE, ratio |-> best_ratio]
        ELSE LET window == SubSeq(source_clean, i + 1,
                                  Min(Len(source_clean), i + quote_len + WindowOvershoot))
                 ratio  == Ratio(quote_clean, window)
             IN  IF FracGE(ratio, threshold)
                 THEN [hit |-> TRUE, ratio |-> ratio]
                 ELSE WindowScan(quote_clean, source_clean, i + step,
                                 IF FracGT(ratio, best_ratio) THEN ratio ELSE best_ratio,
                                 threshold)

\* fuzzy_match with the return statement that produced the result:
\* "empty", "exact", "window", "half_both", "half_one" or "none"
FuzzyMatchVia(quote, source_text, threshold) ==
    IF quote = << >> \/ source_text = << >>
    THEN [passed |-> FALSE, similarity |-> Frac(0, 1), via |-> "empty"]
    ELSE
    LET quote_clean  == Clean(quote)
        source_clean == Clean(source_text)
    IN  IF IsSubstring(quote_clean, source_clean)
        THEN [passed |-> TRUE, similarity |-> Frac(1, 1), via |-> "exact"]
        ELSE
        LET scan == WindowScan(quote_clean, source_clean, 0, Frac(0, 1), threshold)
            half == Len(quote_clean) \div 2
            first_found  == IsSubstring(Take(quote_clean, half), source_clean)
            second_found == IsSubstring(Drop(quote_clean, half), source_clean)
        IN  IF scan.hit
            THEN [passed |-> TRUE, similarity |-> scan.ratio, via |-> "window"]
            ELSE IF Len(quote_clean) > HalfQuoteMin /\ first_found /\ second_found
            THEN [passed |-> TRUE, similarity |-> Frac(85, 100), via |-> "half_both"]
            ELSE IF Len(quote_clean) > HalfQuoteMin /\ (first_found \/ second_found)
            THEN [passed |-> TRUE, similarity |-> Frac(70, 100), via |-> "half_one"]
            ELSE [passed |-> FracGE(scan.ratio, threshold), similarity |-> scan.ratio,
                  via |-> "none"]

\* fuzzy_match(quote, source_text): (passed, similarity)
fuzzy_match(quote, source_text) ==
    LET r == FuzzyMatchVia(quote, source_text, Threshold)
    IN  [passed |-> r.passed, similarity |-> r.similarity]

\* Inputs of fuzzy_match under test: all strings up to a length over one
\* letter in both cases, the blank and the tab
MaxQuoteLen  == 3
MaxSourceLen == 3

FuzzyAlphabet == {"a", "A", " ", "\t"}

StringsUpTo(n) == UNION { [1..k -> FuzzyAlphabet] : k \in 0..n }

NotCalled == [passed |-> FALSE, similarity |-> Frac(0, 1), via |-> "not_called"]

FuzzyInit ==
    /\ fm_quote \in StringsUpTo(MaxQuoteLen)
    /\ fm_source \in StringsUpTo(MaxSourceLen)
    /\ fm_result = NotCalled

\* fm_result = fuzzy_match(fm_quote, fm_source)
FuzzyMatch ==
    /\ fm_result = NotCalled
    /\ fm_result' = FuzzyMatchVia(fm_quote, fm_source, Threshold)
    /\ UNCHANGED <<fm_quote, fm_source>>

\* Inputs around the half-quote fallback: quotes whose normalized length is
\* 50, 51 or 52, made of a run of one letter and a run of another with the
\* midpoint at, before and after the change of letter, in either case and
\* with whitespace to collapse; sources made of two such runs around a
\* foreign letter, in both orders, with and without a first window to skip,
\* and two sources that hold a whole quote
Rep(c, n) == [i \in 1..n |-> c]

LongQuotes ==
    { Rep("a", 25) \o Rep("b", 25),
      Rep("a", 25) \o Rep("b", 26),
      Rep("a", 26) \o Rep("b", 25),
      Rep("A", 26) \o Rep("B", 26),
      Rep("a", 25) \o <<" ", "\t">> \o Rep("b", 25),
      Rep("a", 24) \o <<" ", " ">> \o Rep("B", 25) \o <<" ">> }

SourceParts ==
    { << >>, Rep("a", 24), Rep("a", 25), Rep("b", 25), Rep("B", 26),
      <<" ", "\t">> \o Rep("b", 25) }

SourceLeads == { << >>, Rep("y", 12) }

\* sources that hold a whole quote
JoinedSources ==
    { Rep("a", 25) \o Rep("b", 25),
      Rep("y", 12) \o Rep("A", 25) \o <<"\t">> \o Rep("b", 26) }

LongSources ==
    { lead \o p1 \o <<"x">> \o p2 :
        lead \in SourceLeads, p1 \in SourceParts, p2 \in SourceParts }
    \cup JoinedSources

FuzzyLongInit ==
    /\ fm_quote \in LongQuotes
    /\ fm_source \in LongSources
    /\ fm_result = NotCalled

-----------------------------------------------------------------------------
(* Extraction and verification: run_pipeline.py (run_phase2),               *)
(* phases/phase2_extract.py, phases/phase3_verify.py                        *)

MaxSignals == 2

\* a string of single characters
S1(c) == <<c>>
S4(a, b, c, d) == <<a, b, c, d>>

\* one signal of an extraction response; a missing, null or empty quote is
\* << >>, a missing name is None
LLMSignal(quote, problem, person, company, person_company) ==
    [original_quote |-> quote, expressed_problem |-> problem, person_name |-> person,
     company_name |-> company, person_company |-> person_company]

\* the signals the extraction model may answer with
LLMSignals ==
    { LLMSignal(S4("A", "B", "X", "Y"), TRUE, S1("p"), S1("c"), None),
      LLMSignal(S4("a", "b", "c", "d"), FALSE, None, None, None),
      LLMSignal(S4("z", "a", "b", "q"), TRUE, None, None, None),
      LLMSignal(<< >>, TRUE, None, None, None),
      LLMSignal(<< >>, FALSE, S1("p"), None, None) }

\* parse_extraction_response keeping the signals with a quote only
RECURSIVE parse_extraction_response_quote_only(_, _)
parse_extraction_response_quote_only(signals, source_hash) ==
    IF signals = << >> THEN << >>
    ELSE LET s == Head(signals)
             rest == parse_extraction_response_quote_only(Tail(signals), source_hash)
         IN  IF s.original_quote # << >>
             THEN <<[signal |-> s, source_hash |-> source_hash]>> \o rest
             ELSE rest

\* parse_extraction_response: the signals with a quote or an expressed
\* problem, in their order, each with the page's source_hash
RECURSIVE parse_extraction_response(_, _)
parse_extraction_response(signals, source_hash) ==
    IF signals = << >> THEN << >>
    ELSE LET s == Head(signals)
             rest == parse_extraction_response(Tail(signals), source_hash)
         IN  IF s.original_quote # << >> \/ s.expressed_problem
             THEN <<[signal |-> s, source_hash |-> source_hash]>> \o rest
             ELSE rest

\* store_extracted_signals: one row per signal, ids by AUTOINCREMENT
RECURSIVE store_extracted_signals(_, _, _)
store_extracted_signals(es, signals, now) ==
    IF signals = << >> THEN es
    ELSE LET s == Head(signals)
         IN  store_extracted_signals(
                 Append(es, [id |-> Len(es) + 1,
                             source_hash |-> s.source_hash,
                             original_quote |-> s.signal.original_quote,
                             expressed_problem |-> s.signal.expressed_problem,
                             person_name |-> s.signal.person_name,
                             company_name |-> s.signal.company_name,
                             person_company |-> s.signal.person_company,
                             created_at |-> now]),
                 Tail(signals), now)

ExtractMinLen == 100   \* length(rc.raw_text) > 100

\* the SELECT without the test on es.id
Unextracted_all_captures(rc, es) ==
    { i \in 1..Len(rc) : StrLen(rc[i].raw_text) > ExtractMinLen }

\* run_phase2: the captures without extracted signals and with more than 100
\* characters of text
Unextracted(rc, es) ==
    { i \in 1..Len(rc) :
        /\ \A k \in 1..Len(es) : es[k].source_hash # rc[i].source_hash
        /\ StrLen(rc[i].raw_text) > ExtractMinLen }

\* one iteration of run_phase2's loop: the model's answer for one page is
\* parsed and stored
ExtractPage ==
    /\ vpc = "idle"
    /\ \E i \in Unextracted(raw_crawl, extracted_signals),
          n \in 1..(MaxSignals - Len(extracted_signals)) :
         \E response \in [1..n -> LLMSignals] :
            extracted_signals' =
                store_extracted_signals(
                    extracted_signals,
                    parse_extraction_response(response, raw_crawl[i].source_hash),
                    today)
    /\ UNCHANGED <<verified_signals, unverified, vpc>>

\* the SELECT of run_verification without the test on vs.id
SelectUnverified_all(es, rc, vs) ==
    { [id |-> es[k].id, original_quote |-> es[k].original_quote,
       company_name |-> es[k].company_name, person_company |-> es[k].person_company,
       person_name |-> es[k].person_name,
       source_url |-> rc[i].source_url, raw_text |-> rc[i].raw_text] :
      <<k, i>> \in { p \in (1..Len(es)) \X (1..Len(rc)) :
                        rc[p[2]].source_hash = es[p[1]].source_hash } }

\* the SELECT of run_verification: extracted_signals JOIN raw_crawl LEFT JOIN
\* verified_signals WHERE vs.id IS NULL; the order of the rows is not specified
SelectUnverified(es, rc, vs) ==
    { r \in SelectUnverified_all(es, rc, vs) :
        \A v \in 1..Len(vs) : vs[v].signal_id # r.id }

\* a or b
Or(a, b) == IF a # None /\ a # << >> THEN a ELSE b

DuplicateWindowDays == 7
NoId == 0    \* NULL in duplicate_of

\* check_duplicate without the join on the verified results
check_duplicate_any_candidate(es, vs, signal, now) ==
    LET person  == signal.person_name
        company == Or(signal.company_name, signal.person_company)
        rows == { k \in 1..Len(es) :
                    /\ person # None => es[k].person_name = person
                    /\ company # None =>
                          (es[k].company_name = company \/ es[k].person_company = company)
                    /\ es[k].created_at >= now - DuplicateWindowDays }
        quote == signal.original_quote
        similar == { k \in rows :
                       /\ quote # << >>
                       /\ es[k].original_quote # << >>
                       /\ FracGT(Ratio(Lower(quote), Lower(es[k].original_quote)),
                                 Frac(7, 10)) }
    IN  IF person = None /\ company = None
        THEN { [is_dup |-> FALSE, dup_id |-> NoId] }
        ELSE IF similar = {}
        THEN { [is_dup |-> FALSE, dup_id |-> NoId] }
        ELSE { [is_dup |-> TRUE, dup_id |-> es[k].id] : k \in similar }

\* check_duplicate: the results it may return, one per matching row the
\* query may deliver first
check_duplicate(es, vs, signal, now) ==
    LET person  == signal.person_name
        company == Or(signal.company_name, signal.person_company)
        rows == { k \in 1..Len(es) :
                    /\ person # None => es[k].person_name = person
                    /\ company # None =>
                          (es[k].company_name = company \/ es[k].person_company = company)
                    /\ \E v \in 1..Len(vs) :
                          vs[v].signal_id = es[k].id /\ vs[v].final_status = "verified"
                    /\ es[k].created_at >= now - DuplicateWindowDays }
        quote == signal.original_quote
        similar == { k \in rows :
                       /\ quote # << >>
                       /\ es[k].original_quote # << >>
                       /\ FracGT(Ratio(Lower(quote), Lower(es[k].original_quote)),
                                 Frac(7, 10)) }
    IN  IF person = None /\ company = None
        THEN { [is_dup |-> FALSE, dup_id |-> NoId] }
        ELSE IF similar = {}
        THEN { [is_dup |-> FALSE, dup_id |-> NoId] }
        ELSE { [is_dup |-> TRUE, dup_id |-> es[k].id] : k \in similar }

\* "passed" if quote_passed else ("partial" if quote_sim > 0.5 else "failed")
QuoteStatus(quote_passed, quote_sim) ==
    IF quote_passed THEN "passed"
    ELSE IF FracGT(quote_sim, Frac(5, 10)) THEN "partial" ELSE "failed"

\* the final status with the weak cases tested before the dead URL
FinalStatus_weak_first(quote_status, url_status) ==
    IF quote_status = "failed" THEN "rejected"
    ELSE IF quote_status = "partial" \/ url_status = "timeout" THEN "weak"
    ELSE IF url_status = "dead" THEN "rejected"
    ELSE "verified"

\* the if/elif chain of run_verification that determines final_status
FinalStatus(quote_status, url_status) ==
    IF quote_status = "failed" THEN "rejected"
    ELSE IF url_status = "dead" THEN "rejected"
    ELSE IF quote_status = "partial" \/ url_status = "timeout" THEN "weak"
    ELSE "verified"

\* what check_url_alive may return
UrlStatuses == {"live", "redirect", "dead", "timeout"}

\* run_verification up to the fetchall
StartVerification ==
    /\ vpc = "idle"
    /\ unverified' = SelectUnverified(extracted_signals, raw_crawl, verified_signals)
    /\ vpc' = "loop"
    /\ UNCHANGED <<extracted_signals, verified_signals>>

\* one iteration of `for signal in unverified`
VerifySignal ==
    /\ vpc = "loop"
    /\ \E signal \in unverified :
         \E fm \in {fuzzy_match(signal.original_quote, Chars(signal.raw_text))},
            url_status \in UrlStatuses,
            found \in BOOLEAN,
            dup \in check_duplicate(extracted_signals, verified_signals, signal, today) :
           LET company == Or(signal.company_name, signal.person_company)
               quote_status == QuoteStatus(fm.passed, fm.similarity)
           IN  /\ verified_signals' =
                     Append(verified_signals,
                            [id |-> Len(verified_signals) + 1,
                             signal_id |-> signal.id,
                             quote_check |-> quote_status,
                             quote_similarity |-> fm.similarity,
                             url_check |-> url_status,
                             company_verified |-> IF company # None /\ found THEN 1 ELSE 0,
                             company_allabolag_data |->
                                 IF company # None /\ found
                                 THEN {"found", "search_url"} ELSE {},
                             is_duplicate |-> IF dup.is_dup THEN 1 ELSE 0,
                             duplicate_of |-> dup.dup_id,
                             final_status |-> FinalStatus(quote_status, url_status)])
               /\ unverified' = unverified \ {signal}
    /\ UNCHANGED <<extracted_signals, vpc>>

\* the loop is over: conn.commit() and return
FinishVerification ==
    /\ vpc = "loop"
    /\ unverified = {}
    /\ vpc' = "idle"
    /\ UNCHANGED <<extracted_signals, verified_signals, unverified>>

\* the captures present when extraction and verification run: two pages of
\* 101 characters under two URLs and one of 100 characters, stored by run_crawl
QuotedText == <<Run("z", 1), Run(" ", 96), Run("a", 1), Run("b", 1), Run("x", 1), Run("y", 1)>>

CrawledPages ==
    << [url |-> <<Run("u", 1)>>, raw_text |-> QuotedText],
       [url |-> <<Run("v", 1)>>, raw_text |-> QuotedText],
       [url |-> <<Run("w", 1)>>, raw_text |-> <<Run("a", 100)>>] >>

RECURSIVE StoreAll(_, _)
StoreAll(rc, pages) ==
    IF pages = << >> THEN rc
    ELSE StoreAll(store_crawl_result(rc, Head(pages).url, Head(pages).raw_text).rows,
                  Tail(pages))

CrawledInit ==
    /\ raw_crawl = StoreAll(<< >>, CrawledPages)
    /\ stats = NewStats
    /\ last_store = NoCall

VerifyInit ==
    /\ extracted_signals = << >>
    /\ verified_signals = << >>
    /\ unverified = {}
    /\ vpc = "idle"

-----------------------------------------------------------------------------
(* Keyword evolution: phases/keyword_evolution.py, run_pipeline.py          *)
(* (run_phase6_keywords). Keywords and query texts are strings of           *)
(* characters here.                                                         *)

MaxUses == 3

Quote == "\""

\* the position of the first double quote of s, 0 without one
RECURSIVE FirstQuote(_, _)
FirstQuote(s, i) ==
    IF i > Len(s) THEN 0 ELSE IF s[i] = Quote THEN i ELSE FirstQuote(s, i + 1)

\* re.findall(r'"([^"]+)"', query_text): the non-empty stretches between a
\* double quote and the next one, from left to right without overlap
RECURSIVE FindQuoted(_)
FindQuoted(s) ==
    LET i == FirstQuote(s, 1)
        j == FirstQuote(s, i + 1)
    IN  IF i = 0 \/ j = 0 THEN << >>
        ELSE IF j = i + 1 THEN FindQuoted(SubSeq(s, j, Len(s)))
        ELSE <<SubSeq(s, i + 1, j - 1)>> \o FindQuoted(SubSeq(s, j + 1, Len(s)))

\* one row of keyword_history with the column defaults
NewKeywordRow(keyword, keyword_type, source) ==
    [keyword |-> keyword, keyword_type |-> keyword_type, source |-> source,
     times_used |-> 0, times_produced_signal |-> 0, hit_rate |-> Frac(0, 1)]

\* track_keyword_in_db: INSERT unless a row with the keyword exists
track_keyword_in_db(kh, keyword, keyword_type, source) ==
    IF \E r \in 1..Len(kh) : kh[r].keyword = keyword THEN kh
    ELSE Append(kh, NewKeywordRow(keyword, keyword_type, source))

\* the UPDATE of update_keyword_stats that counts a use without looking at
\* produced_signal for the successes
UpdateRow_always_success(row, produced_signal) ==
    [row EXCEPT !.times_used = row.times_used + 1,
                !.times_produced_signal = row.times_produced_signal + 1,
                !.hit_rate = Frac(row.times_produced_signal + 1, row.times_used + 1)]

\* the UPDATE of update_keyword_stats on one row: the three columns are set
\* from the old values in one statement
UpdateRow(row, produced_signal) ==
    LET inc == IF produced_signal THEN 1 ELSE 0
    IN  [row EXCEPT !.times_used = row.times_used + 1,
                    !.times_produced_signal = row.times_produced_signal + inc,
                    !.hit_rate = Frac(row.times_produced_signal + inc,
                                      row.times_used + 1)]

\* UPDATE keyword_history SET ... WHERE keyword = ?
UpdateKeyword(kh, kw, produced_signal) ==
    [r \in 1..Len(kh) |->
        IF kh[r].keyword = kw THEN UpdateRow(kh[r], produced_signal) ELSE kh[r]]

\* the loop `for kw in keywords_in_query`
RECURSIVE UpdateAll(_, _, _)
UpdateAll(kh, kws, produced_signal) ==
    IF kws = << >> THEN kh
    ELSE UpdateAll(UpdateKeyword(kh, Head(kws), produced_signal), Tail(kws),
                   produced_signal)

\* update_keyword_stats(conn, query_text, keyword_type, produced_signal)
update_keyword_stats(kh, query_text, produced_signal) ==
    UpdateAll(kh, FindQuoted(query_text), produced_signal)

\* `for kw in new_keywords: if term not in from_signals: append`
RECURSIVE AddNew(_, _)
AddNew(from_signals, new_keywords) ==
    IF new_keywords = << >> THEN from_signals
    ELSE AddNew(IF Head(new_keywords) \in Range(from_signals) THEN from_signals
                ELSE Append(from_signals, Head(new_keywords)),
                Tail(new_keywords))

\* [t for t in terms if t not in retire_terms]
Without(terms, retire) == SelectSeq(terms, LAMBDA t : t \notin Range(retire))

\* update_keywords_file(new_keywords, retire): keywords.json afterwards
update_keywords_file(kw, new_keywords, retire) ==
    [kw EXCEPT !.discovery_keywords.from_signals =
                   Without(AddNew(kw.discovery_keywords.from_signals, new_keywords),
                           retire),
               !.discovery_keywords.adjacent_terms =
                   Without(kw.discovery_keywords.adjacent_terms, retire)]

\* the loop `for kw in new_kws: track_keyword_in_db(...)` of run_phase6_keywords
RECURSIVE TrackAll(_, _)
TrackAll(kh, new_kws) ==
    IF new_kws = << >> THEN kh
    ELSE TrackAll(track_keyword_in_db(kh, Head(new_kws), "discovery", "llm_suggested"),
                  Tail(new_kws))

\* the terms the suggestion model may name
Terms == { <<"a">>, <<"b">> }

\* the lists of at most n terms
TermLists(n) == UNION { [1..k -> Terms] : k \in 0..n }

\* the discovery pools keywords.json starts with
DiscoveryPools ==
    { <<<< >>, << >>>>,
      <<<<<<"a">>>>, <<<<"b">>>>>>,
      <<<<<<"a">>, <<"b">>>>, << >>>> }

\* query texts: "a" b / "a" "b" / "a" "a" / a b / ""b"
QueryTexts ==
    { <<Quote, "a", Quote, " ", "b">>,
      <<Quote, "a", Quote, " ", Quote, "b", Quote>>,
      <<Quote, "a", Quote, " ", Quote, "a", Quote>>,
      <<"a", " ", "b">>,
      <<Quote, Quote, "b", Quote>> }

NoEvolveCall == [op |-> "none", query_text |-> << >>, produced_signal |-> FALSE,
                 new_keywords |-> << >>, retire |-> << >>]

EvolveInit ==
    /\ keyword_history = << >>
    /\ evolve_last = NoEvolveCall

\* run_phase6_keywords from the parsed suggestions on
RunPhase6Keywords ==
    \E new_kws \in TermLists(2), retire \in TermLists(1) :
        /\ IF new_kws # << >>
           THEN /\ keywords' = update_keywords_file(keywords, new_kws, retire)
                /\ keyword_history' = TrackAll(keyword_history, new_kws)
                /\ evolve_last' = [NoEvolveCall EXCEPT !.op = "update_keywords_file",
                                                       !.new_keywords = new_kws,
                                                       !.retire = retire]
           ELSE \* "No new keywords suggested": the response is dropped whole
                /\ UNCHANGED <<keywords, keyword_history>>
                /\ evolve_last' = [NoEvolveCall EXCEPT !.op = "no_new_keywords",
                                                       !.retire = retire]

\* update_keyword_stats called for one executed query
UpdateKeywordStats ==
    \E query_text \in QueryTexts, produced_signal \in BOOLEAN :
        /\ keyword_history' = update_keyword_stats(keyword_history, query_text,
                                                   produced_signal)
        /\ \A r \in 1..Len(keyword_history') : keyword_history'[r].times_used <= MaxUses
        /\ evolve_last' = [NoEvolveCall EXCEPT !.op = "update_keyword_stats",
                                               !.query_text = query_text,
                                               !.produced_signal = produced_signal]
        /\ UNCHANGED keywords

-----------------------------------------------------------------------------
(* Credibility filter: phase2_5_credibility.py.  The sponsorship markers   *)
(* are regular expressions; each is written as the sequence of its pieces:  *)
(* a literal, \s* or \s+, .* and an optional literal.                       *)

Lit(s)  == [t |-> "lit", s |-> s, min |-> 0]
Ws(min) == [t |-> "ws",  s |-> << >>, min |-> min]
AnyRun  == [t |-> "any", s |-> << >>, min |-> 0]
Opt(s)  == [t |-> "opt", s |-> s, min |-> 0]

\* str.lower, and the case folding of re.IGNORECASE, for the letters in use
UpperLetters ==
    <<"A","B","C","D","E","F","G","H","I","J","K","L","M","N","O","P","Q","R",
      "S","T","U","V","W","X","Y","Z","Å","Ä","Ö","Í">>
LowerLetters ==
    <<"a","b","c","d","e","f","g","h","i","j","k","l","m","n","o","p","q","r",
      "s","t","u","v","w","x","y","z","å","ä","ö","í">>
PyLowerChar(c) ==
    IF \E i \in 1..Len(UpperLetters) : UpperLetters[i] = c
    THEN LowerLetters[CHOOSE i \in 1..Len(UpperLetters) : UpperLetters[i] = c]
    ELSE c
PyLower(s) == [i \in 1..Len(s) |-> PyLowerChar(s[i])]

\* the literal lit, ignoring case, stands in s at position pos (1-based)
LitAt(lit, s, pos) ==
    /\ pos + Len(lit) - 1 <= Len(s)
    /\ \A i \in 1..Len(lit) : PyLowerChar(s[pos + i - 1]) = PyLowerChar(lit[i])

\* the pieces pat[k..] match s from position pos on
RECURSIVE MatchFrom(_, _, _, _)
MatchFrom(pat, k, s, pos) ==
    IF k > Len(pat) THEN TRUE
    ELSE LET e == pat[k] IN
         CASE e.t = "lit" ->
                LitAt(e.s, s, pos) /\ MatchFrom(pat, k + 1, s, pos + Len(e.s))
           [] e.t = "ws" ->
                \E n \in e.min..(Len(s) - pos + 1) :
                    /\ \A i \in pos..(pos + n - 1) : IsSpace(s[i])
                    /\ MatchFrom(pat, k + 1, s, pos + n)
           [] e.t = "any" ->
                \E n \in 0..(Len(s) - pos + 1) :
                    /\ \A i \in pos..(pos + n - 1) : s[i] # "\n"
                    /\ MatchFrom(pat, k + 1, s, pos + n)
           [] e.t = "opt" ->
                \/ MatchFrom(pat, k + 1, s, pos)
                \/ LitAt(e.s, s, pos) /\ MatchFrom(pat, k + 1, s, pos + Len(e.s))

\* re.search(pattern, s, re.IGNORECASE) finds a match
ReSearch(pat, s) == \E pos \in 1..(Len(s) + 1) : MatchFrom(pat, 1, s, pos)

sponsored_patterns ==
    << [name |-> "brand\\s*studio",
        re |-> <<Lit(<<"b","r","a","n","d">>), Ws(0), Lit(<<"s","t","u","d","i","o">>)>>],
       [name |-> "i\\s+samarbete\\s+med",
        re |-> <<Lit(<<"i">>), Ws(1), Lit(<<"s","a","m","a","r","b","e","t","e">>), Ws(1), Lit(<<"m","e","d">>)>>],
       [name |-> "annons(?:ering)?",
        re |-> <<Lit(<<"a","n","n","o","n","s">>), Opt(<<"e","r","i","n","g">>)>>],
       [name |-> "sponsored",
        re |-> <<Lit(<<"s","p","o","n","s","o","r","e","d">>)>>],
       [name |-> "paid\\s+partnership",
        re |-> <<Lit(<<"p","a","i","d">>), Ws(1), Lit(<<"p","a","r","t","n","e","r","s","h","i","p">>)>>],
       [name |-> "in\\s+cooperation\\s+with",
        re |-> <<Lit(<<"i","n">>), Ws(1), Lit(<<"c","o","o","p","e","r","a","t","i","o","n">>), Ws(1), Lit(<<"w","i","t","h">>)>>],
       [name |-> "producerad\\s+av.*i\\s+samarbete",
        re |-> <<Lit(<<"p","r","o","d","u","c","e","r","a","d">>), Ws(1), Lit(<<"a","v">>), AnyRun, Lit(<<"i">>), Ws(1),
                 Lit(<<"s","a","m","a","r","b","e","t","e">>)>>],
       [name |-> "partnership\\s+content",
        re |-> <<Lit(<<"p","a","r","t","n","e","r","s","h","i","p">>), Ws(1), Lit(<<"c","o","n","t","e","n","t">>)>>],
       [name |-> "native\\s+advertising",
        re |-> <<Lit(<<"n","a","t","i","v","e">>), Ws(1), Lit(<<"a","d","v","e","r","t","i","s","i","n","g">>)>>],
       [name |-> "betalt\\s+innehåll",
        re |-> <<Lit(<<"b","e","t","a","l","t">>), Ws(1), Lit(<<"i","n","n","e","h","å","l","l">>)>>],
       [name |-> "reklam",
        re |-> <<Lit(<<"r","e","k","l","a","m">>)>>] >>

url_red_flags ==
    << [name |-> "/brandstudio/", s |-> <<"/","b","r","a","n","d","s","t","u","d","i","o","/">>],
       [name |-> "/annons/",      s |-> <<"/","a","n","n","o","n","s","/">>],
       [name |-> "/sponsored/",   s |-> <<"/","s","p","o","n","s","o","r","e","d","/">>],
       [name |-> "/partners/",    s |-> <<"/","p","a","r","t","n","e","r","s","/">>],
       [name |-> "/native-ads/",  s |-> <<"/","n","a","t","i","v","e","-","a","d","s","/">>],
       [name |-> "/reklam/",      s |-> <<"/","r","e","k","l","a","m","/">>] >>

nordic_tlds == { <<".","s","e">>, <<".","d","k">>, <<".","n","o">>, <<".","f","i">>, <<".","i","s">> }

nordic_domains ==
    { <<"s","w","e","d","e","n">>, <<"s","v","e","r","i","g","e">>, <<"d","e","n","m","a","r","k">>, <<"d","a","n","m","a","r","k">>, <<"n","o","r","w","a","y">>, <<"n","o","r","g","e">>,
      <<"f","i","n","l","a","n","d">>, <<"s","u","o","m","i">>, <<"i","c","e","l","a","n","d">>, <<"í","s","l","a","n","d">> }

nordic_linkedin ==
    { <<"s","e",".","l","i","n","k","e","d","i","n">>, <<"d","k",".","l","i","n","k","e","d","i","n">>, <<"n","o",".","l","i","n","k","e","d","i","n">>, <<"f","i",".","l","i","n","k","e","d","i","n">>,
      <<"i","s",".","l","i","n","k","e","d","i","n">> }

nordic_subs ==
    { <<"/","s","w","e","d","e","n">>, <<"/","n","o","r","g","e">>, <<"/","d","e","n","m","a","r","k">>, <<"/","s","u","o","m","i">>, <<"/","i","c","e","l","a","n","d">>,
      <<"/","f","o","r","e","t","a","g","a","n","d","e">> }

AnyIn(tokens, s) == \E t \in tokens : IsSubstring(t, s)

RedFlag(kind, marker) == [kind |-> kind, marker |-> marker]

\* the flags of the entries of a marker list that hit, in the list's order;
\* hit[i] tells whether entry i matched
RECURSIVE FlagsOf(_, _, _, _)
FlagsOf(list, kind, hit, i) ==
    IF i > Len(list) THEN << >>
    ELSE (IF hit[i] THEN <<RedFlag(kind, list[i].name)>> ELSE << >>)
         \o FlagsOf(list, kind, hit, i + 1)

\* lines 64-100: the geography decision; the two platform branches assign
GeoBase(url) == AnyIn(nordic_tlds, url) \/ AnyIn(nordic_domains, PyLower(url))

GeoLinkedIn(url, before) ==
    IF IsSubstring(<<"l","i","n","k","e","d","i","n",".","c","o","m">>, url)
    THEN \/ AnyIn(nordic_linkedin, url)
         \/ IsSubstring(<<"?","t","l","=","s","v">>, url)
         \/ IsSubstring(<<"&","t","l","=","s","v">>, url)
    ELSE before

GeoReddit(url, before) ==
    IF IsSubstring(<<"r","e","d","d","i","t",".","c","o","m">>, url)
    THEN AnyIn(nordic_subs, PyLower(url))
    ELSE before

IsNordic(url) == GeoReddit(url, GeoLinkedIn(url, GeoBase(url)))

\* a score is None or one number
Unset == << >>

deterministic_credibility_check(url, html) ==
    LET html_hit == [i \in 1..Len(sponsored_patterns) |->
                        ReSearch(sponsored_patterns[i].re, html)]
        url_hit == [i \in 1..Len(url_red_flags) |->
                       IsSubstring(url_red_flags[i].s, PyLower(url))]
        marker_flags == FlagsOf(sponsored_patterns, "sponsored_marker", html_hit, 1)
                        \o FlagsOf(url_red_flags, "url_contains", url_hit, 1)
        auto_reject == \/ \E i \in 1..Len(sponsored_patterns) : html_hit[i]
                       \/ \E i \in 1..Len(url_red_flags) : url_hit[i]
        is_nordic == IsNordic(url)
    IN  [ auto_reject |-> auto_reject,
          red_flags |-> marker_flags \o
                        (IF is_nordic THEN << >>
                         ELSE <<RedFlag("non_nordic_geography", "")>>),
          sales_intent_score |-> IF auto_reject THEN <<10>> ELSE Unset,
          objectivity_score |-> IF auto_reject THEN <<10>> ELSE Unset,
          is_nordic |-> is_nordic ]

\* run_credibility_check, lines 133-145: the verdict of one row
Verdict_geography_first(check) ==
    IF ~check.is_nordic THEN "review"
    ELSE IF check.auto_reject THEN "reject" ELSE "accept"

\* the verdict without the review branch
Verdict_without_review(check) ==
    IF check.auto_reject THEN "reject" ELSE "accept"

Verdict(check) ==
    IF check.auto_reject THEN "reject"
    ELSE IF ~check.is_nordic THEN "review" ELSE "accept"

\* what lines 158-159 store for a score
StoredScore(score) == IF score = Unset THEN 5 ELSE score[1]

CredUrls ==
    { <<"h","t","t","p","s",":","/","/","d","i",".","s","e","/","b","r","a","n","d","s","t","u","d","i","o","/","t">>,
      <<"h","t","t","p","s",":","/","/","b","r","e","a","k","i","t",".","s","e","/","a">>,
      <<"h","t","t","p","s",":","/","/","t","e","c","h","c","r","u","n","c","h",".","c","o","m","/","a">>,
      <<"h","t","t","p","s",":","/","/","t","e","c","h","c","r","u","n","c","h",".","c","o","m","/","S","p","o","n","s","o","r","e","d","/","a">>,
      <<"h","t","t","p","s",":","/","/","d","k",".","l","i","n","k","e","d","i","n",".","c","o","m","/","p","o","s","t","s","/","t">>,
      <<"h","t","t","p","s",":","/","/","w","w","w",".","l","i","n","k","e","d","i","n",".","c","o","m","/","p","o","s","t","s","/","t">>,
      <<"h","t","t","p","s",":","/","/","w","w","w",".","l","i","n","k","e","d","i","n",".","c","o","m","/","p","o","s","t","s","/","t","?","t","l","=","s","v">>,
      <<"h","t","t","p","s",":","/","/","w","w","w",".","r","e","d","d","i","t",".","c","o","m","/","r","/","s","w","e","d","e","n","/","c">>,
      <<"h","t","t","p","s",":","/","/","w","w","w",".","r","e","d","d","i","t",".","c","o","m","/","r","/","s","i","n","g","a","p","o","r","e","/","c">>,
      <<"h","t","t","p","s",":","/","/","w","w","w",".","s","e","o",".","c","o","m","/","a">>,
      <<"h","t","t","p","s",":","/","/","x",".","c","o","m","/","n","o","r","w","a","y","-","t","a","x">>,
      <<"h","t","t","p","s",":","/","/","b","l","o","g",".","s","e","/","r","e","d","d","i","t",".","c","o","m","-","t","i","p","s">>,
      <<"h","t","t","p","s",":","/","/","d","n",".","n","o","/","p","a","r","t","n","e","r","s","/","a","n","n","o","n","s","/","a">> }

CredMarkups ==
    { << >>,
      <<"R","e","g","u","l","a","r"," ","c","o","n","t","e","n","t">>,
      <<"B","r","a","n","d"," ","S","t","u","d","i","o"," ","i"," ","s","a","m","a","r","b","e","t","e"," ","m","e","d"," ","M">>,
      <<"<","d","i","v"," ","c","l","a","s","s","=","'","a","n","n","o","n","s","'",">","x","<","/","d","i","v",">">>,
      <<"S","P","O","N","S","O","R","E","D">>,
      <<"p","r","o","d","u","c","e","r","a","d"," ","a","v"," ","B"," ","i"," "," ","s","a","m","a","r","b","e","t","e">>,
      <<"p","r","o","d","u","c","e","r","a","d"," ","a","v","\n"," ","i"," ","s","a","m","a","r","b","e","t","e">>,
      <<"p","a","i","d","\n"," ","p","a","r","t","n","e","r","s","h","i","p">>,
      <<"B","e","t","a","l","t"," ","i","n","n","e","h","å","l","l">> }

NoCheck == [done |-> FALSE]

CredInit ==
    /\ cred_url \in CredUrls
    /\ cred_html \in CredMarkups
    /\ cred_result = NoCheck

CredOff ==
    /\ cred_url = << >>
    /\ cred_html = << >>
    /\ cred_result = NoCheck

\* one row of run_credibility_check: the check, the verdict, the stored scores
CredibilityCheck ==
    /\ ~cred_result.done
    /\ \E check \in {deterministic_credibility_check(cred_url, cred_html)} :
          cred_result' = [done |-> TRUE, check |-> check, verdict |-> Verdict(check),
                          sales_intent_score |-> StoredScore(check.sales_intent_score),
                          objectivity_score |-> StoredScore(check.objectivity_score)]
    /\ UNCHANGED <<cred_url, cred_html>>

-----------------------------------------------------------------------------
(* validate_schema: llm_utils.py.  A value is represented by the name of    *)
(* its Python type; a declared type is absent, one name, or a list of names. *)

PyTypes == {"str", "int", "float", "bool", "list", "dict", "NoneType"}

NoType == [kind |-> "none", names |-> << >>]
TypeName(t) == [kind |-> "name", names |-> <<t>>]
TypeList(ts) == [kind |-> "list", names |-> ts]

\* type_map.get(expected_type, expected_type): the accepted Python type names
type_map_number_is_float(expected_type) ==
    CASE expected_type = "string"  -> {"str"}
      [] expected_type = "integer" -> {"int"}
      [] expected_type = "number"  -> {"float"}
      [] expected_type = "boolean" -> {"bool"}
      [] expected_type = "array"   -> {"list"}
      [] expected_type = "object"  -> {"dict"}
      [] OTHER -> {expected_type}

type_map(expected_type) ==
    CASE expected_type = "string"  -> {"str"}
      [] expected_type = "integer" -> {"int"}
      [] expected_type = "number"  -> {"int", "float"}
      [] expected_type = "boolean" -> {"bool"}
      [] expected_type = "array"   -> {"list"}
      [] expected_type = "object"  -> {"dict"}
      [] OTHER -> {expected_type}

\* [t for t in expected_type if t != "null"]
RECURSIVE NonNull(_)
NonNull(ts) ==
    IF ts = << >> THEN << >>
    ELSE (IF Head(ts) = "null" THEN << >> ELSE <<Head(ts)>>) \o NonNull(Tail(ts))

\* lines 104-131 for one field of data that has an entry in properties:
\* "ok", "ValueError", or "IndexError" when a type list names nothing but null
CheckField(actual_type, decl) ==
    IF decl.kind = "none" THEN "ok"
    ELSE IF decl.kind = "list" /\ Count(decl.names, "null") > 0
                               /\ actual_type = "NoneType" THEN "ok"
    ELSE IF decl.kind = "list" /\ NonNull(decl.names) = << >> THEN "IndexError"
    ELSE LET expected_type == IF decl.kind = "list" THEN NonNull(decl.names)[1]
                              ELSE decl.names[1]
         IN  IF actual_type \in type_map(expected_type) THEN "ok" ELSE "ValueError"

\* validate_schema(data, schema): data maps its fields to the types of their
\* values; the outcome is that of the first check that does not pass
validate_schema(data, schema) ==
    IF \E field \in schema.required : field \notin DOMAIN data THEN "ValueError"
    ELSE LET checked == DOMAIN data \cap DOMAIN schema.properties
             outcomes == { CheckField(data[f], schema.properties[f]) : f \in checked }
         IN  IF outcomes \subseteq {"ok"} THEN "ok"
             ELSE IF "IndexError" \in outcomes /\ "ValueError" \notin outcomes
                  THEN "IndexError"
             ELSE IF "IndexError" \notin outcomes THEN "ValueError"
             ELSE "ValueError or IndexError"

Fields == {"f", "g"}

DeclaredTypes ==
    { NoType } \cup
    { TypeName(t) : t \in {"string", "integer", "number", "boolean", "array",
                           "object"} } \cup
    { TypeList(<<"string", "null">>), TypeList(<<"null", "integer">>),
      TypeList(<<"number", "null">>) }

PartialMaps(D, R) == UNION { [S -> R] : S \in SUBSET D }

SchemaInit ==
    /\ vs_data \in PartialMaps(Fields, PyTypes)
    /\ vs_schema \in [required : SUBSET Fields,
                      properties : PartialMaps(Fields, DeclaredTypes)]
    /\ vs_result = "not called"

SchemaOff ==
    /\ vs_data = << >>
    /\ vs_schema = [required |-> {}, properties |-> << >>]
    /\ vs_result = "not called"

\* one call; the function reads data and never assigns into it
ValidateSchema ==
    /\ vs_result = "not called"
    /\ vs_result' = validate_schema(vs_data, vs_schema)
    /\ UNCHANGED <<vs_data, vs_schema>>

-----------------------------------------------------------------------------
(* Commits: sqlite3 opens a transaction at the first INSERT and keeps the   *)
(* rows of an open transaction only if conn.commit() is reached.            *)

DurableInit == committed_results = 0

DurableOff == committed_results = 0

\* run_crawl stores the next result page: store_crawl_result with its commit
StoreCapture ==
    /\ vpc = "idle"
    /\ Len(raw_crawl) < Len(CrawledPages)
    /\ LET page == CrawledPages[Len(raw_crawl) + 1]
           res == store_crawl_result(raw_crawl, page.url, page.raw_text)
       IN  /\ raw_crawl' = res.rows
           /\ stats' = [stats EXCEPT !.pages_fetched = @ + 1, !.pages_stored = @ + 1]
           /\ last_store' = [op |-> "crawl_store", url |-> page.url,
                             raw_text |-> page.raw_text, ret |-> res.ret]
    /\ UNCHANGED <<verifyVars, committed_results>>

\* run_phase2 for one capture: store_extracted_signals ends with a commit
ExtractCommitted == ExtractPage /\ UNCHANGED <<crawlVars, committed_results>>

StartPass == StartVerification /\ UNCHANGED <<crawlVars, committed_results>>

\* one iteration of run_verification: the INSERT, no commit
VerifyUncommitted == VerifySignal /\ UNCHANGED <<crawlVars, committed_results>>

\* phase3_verify.py line 266: the one commit of the pass
FinishAndCommit ==
    /\ FinishVerification
    /\ committed_results' = Len(verified_signals)
    /\ UNCHANGED crawlVars

\* the process terminates and is started again: the connection's open
\* transaction is rolled back, what the process held in memory is gone
Crash ==
    /\ verified_signals' = Take(verified_signals, committed_results)
    /\ unverified' = {}
    /\ vpc' = "idle"
    /\ stats' = NewStats
    /\ last_store' = NoCall
    /\ UNCHANGED <<raw_crawl, extracted_signals, committed_results>>

-----------------------------------------------------------------------------
(* One run of main: run_pipeline.py.  A phase is one call of its runner;    *)
(* what a runner does inside is reduced to the work it performs (search     *)
(* backend calls, page fetches and probes, store writes) and to the way it  *)
(* ends: it returns, call_llm ends the process with sys.exit(1), or reading *)
(* the keyword configuration raises.                                        *)

PhaseOrder == <<"crawl", "extract", "verify", "analyze", "brief", "keywords">>

PhaseIndex(p) == CHOOSE i \in 1..Len(PhaseOrder) : PhaseOrder[i] = p

\* main, lines 407-409
AfterCrawl_ignores_flag(a) == "extract"

AfterCrawl(a) == IF a.crawl_only THEN "return" ELSE "extract"

\* main, lines 394-426: the runner main calls after `last` has returned
\* ("begin": nothing was called yet), or "return"
NextCall(last, a, env, result) ==
    CASE last = "begin" ->
            IF a.brief_only
            THEN (IF env.previous_analysis THEN "brief" ELSE "return")
            ELSE IF ~a.skip_crawl THEN "crawl" ELSE AfterCrawl(a)
      [] last = "crawl"    -> AfterCrawl(a)
      [] last = "extract"  -> "verify"
      [] last = "verify"   -> "analyze"
      [] last = "analyze"  -> IF result = "ok" THEN "brief" ELSE "keywords"
      [] last = "brief"    -> IF a.brief_only THEN "return" ELSE "keywords"
      [] last = "keywords" -> "return"

Event(p, e) == [phase |-> p, ev |-> e]

PipeInit ==
    /\ args \in [crawl_only : BOOLEAN, skip_crawl : BOOLEAN, brief_only : BOOLEAN]
    /\ run_env \in [api_key : BOOLEAN, keywords_ok : BOOLEAN,
                    previous_analysis : BOOLEAN]
    /\ ppc = [at |-> "main", phase |-> "begin"]
    /\ events = << >>
    /\ work = {}
    /\ analysis = IF args.brief_only /\ run_env.previous_analysis THEN "ok" ELSE "none"

PipeOff ==
    /\ args = [crawl_only |-> FALSE, skip_crawl |-> FALSE, brief_only |-> FALSE]
    /\ run_env = [api_key |-> TRUE, keywords_ok |-> TRUE, previous_analysis |-> FALSE]
    /\ ppc = [at |-> "main", phase |-> "begin"]
    /\ events = << >>
    /\ work = {}
    /\ analysis = "none"

\* main calls the next runner
CallPhase ==
    /\ ppc.at = "main"
    /\ NextCall(ppc.phase, args, run_env, analysis) # "return"
    /\ LET p == NextCall(ppc.phase, args, run_env, analysis)
       IN  /\ ppc' = [at |-> "in", phase |-> p]
           /\ events' = Append(events, Event(p, "start"))
    /\ UNCHANGED <<args, run_env, work, analysis>>

\* main returns; finally: conn.close()
MainReturns ==
    /\ ppc.at = "main"
    /\ NextCall(ppc.phase, args, run_env, analysis) = "return"
    /\ ppc' = [at |-> "done", phase |-> ppc.phase]
    /\ UNCHANGED <<args, run_env, events, work, analysis>>

\* the ways a runner ends
Returns(p, did, result) ==
    /\ ppc' = [at |-> "main", phase |-> p]
    /\ events' = Append(events, Event(p, "return"))
    /\ work' = work \cup did
    /\ analysis' = result
    /\ UNCHANGED <<args, run_env>>

Fatal(p, kind, did) ==
    /\ ppc' = [at |-> kind, phase |-> p]
    /\ events' = Append(events, Event(p, "exit"))
    /\ work' = work \cup did
    /\ UNCHANGED <<args, run_env, analysis>>

\* call_llm, lines 69-79: without the package or the key, sys.exit(1)
LLMAvailable == run_env.api_key

\* run_phase1 / run_crawl: generate_run_queries reads the keyword file first;
\* every query is one search call and one query_log row, result pages are
\* fetched and stored
Phase1Crawl ==
    /\ ppc = [at |-> "in", phase |-> "crawl"]
    /\ IF ~run_env.keywords_ok THEN Fatal("crawl", "config_failure", {})
       ELSE \E did \in { {}, {"search", "write"}, {"search", "fetch", "write"} } :
                Returns("crawl", did, analysis)

\* run_phase2: call_llm for every unextracted capture, then the store
Phase2Extract ==
    /\ ppc = [at |-> "in", phase |-> "extract"]
    /\ \E rows \in BOOLEAN :
          IF ~rows THEN Returns("extract", {}, analysis)
          ELSE IF ~LLMAvailable THEN Fatal("extract", "credential_failure", {})
          ELSE \E did \in { {}, {"write"} } : Returns("extract", did, analysis)

\* run_phase3 / run_verification: URL probes, registry lookups, results
Phase3Verify ==
    /\ ppc = [at |-> "in", phase |-> "verify"]
    /\ \E did \in { {}, {"fetch", "write"} } : Returns("verify", did, analysis)

\* run_phase4: nothing without signals; else call_llm and the analysis row
Phase4Analyze ==
    /\ ppc = [at |-> "in", phase |-> "analyze"]
    /\ \E signals \in BOOLEAN :
          IF ~signals THEN Returns("analyze", {}, "empty")
          ELSE IF ~LLMAvailable THEN Fatal("analyze", "credential_failure", {})
          ELSE \/ Returns("analyze", {}, "empty")
               \/ Returns("analyze", {"write"}, "error")
               \/ Returns("analyze", {"write"}, "ok")

\* run_phase5: call_llm and the brief file
Phase5Brief ==
    /\ ppc = [at |-> "in", phase |-> "brief"]
    /\ IF ~LLMAvailable THEN Fatal("brief", "credential_failure", {})
       ELSE \E did \in { {}, {"write"} } : Returns("brief", did, analysis)

\* run_phase6_keywords: nothing without signals; else the keyword file is
\* read, call_llm is called and the suggestions are written
Phase6Keywords ==
    /\ ppc = [at |-> "in", phase |-> "keywords"]
    /\ \E signals \in BOOLEAN :
          IF ~signals THEN Returns("keywords", {}, analysis)
          ELSE IF ~run_env.keywords_ok THEN Fatal("keywords", "config_failure", {})
          ELSE IF ~LLMAvailable THEN Fatal("keywords", "credential_failure", {})
          ELSE \E did \in { {}, {"write"} } : Returns("keywords", did, analysis)

-----------------------------------------------------------------------------
(* A run with failing items: run_crawl's two loops, run_phase2 and           *)
(* run_verification, each step with every outcome its item can have.        *)

\* what the search backend does for one query: the request fails, or it
\* answers with a list of results
Raised == <<"raised">>

SearchOutcomes ==
    { [error |-> TRUE, results |-> << >>],
      [error |-> FALSE, results |-> << >>],
      [error |-> FALSE, results |-> << <<Run("u", 1)>> >>],
      [error |-> FALSE, results |-> << <<Run("u", 1)>>, <<Run("v", 1)>> >>] }

\* search_google, lines 83-88: a failed request is logged and gives []
search_google_uncaught(outcome) ==
    IF outcome.error THEN Raised ELSE outcome.results

search_google(outcome) ==
    IF outcome.error THEN << >> ELSE outcome.results

\* fetch_page for a result: a failed request or a refused page, a body that
\* is too short, a page with text
RunPages ==
    { [error |-> TRUE, raw_text |-> << >>, status |-> 0],
      [error |-> TRUE, raw_text |-> << >>, status |-> 404],
      [error |-> FALSE, raw_text |-> <<Run("a", 99)>>, status |-> 200],
      [error |-> FALSE, raw_text |-> QuotedText, status |-> 200] }

\* the extraction model's answers for a page: nothing usable, or one signal
RunResponses ==
    { << >>,
      <<LLMSignal(<< >>, FALSE, S1("p"), None, None)>>,
      <<LLMSignal(S4("A", "B", "X", "Y"), TRUE, S1("p"), S1("c"), None)>>,
      <<LLMSignal(S4("a", "b", "c", "d"), FALSE, None, None, None)>> }

RunKeywords ==
    KeywordFile(<<W("tidsbrist")>>, << >>, <<W("småföretag")>>, << >>,
                <<W("fakturering")>>, << >>, 2, 50, 1)

\* the lists generate_run_queries can return for the keyword file, on an
\* empty query_log
RunQueryLists ==
    LET rotation == RunKeywords.rotation
    IN  { SelectFinal(c, d, rotation.queries_per_run, CoreCount(rotation),
                      DiscoveryCount(rotation)) :
            c \in build_core_queries(RunKeywords, CoreCount(rotation) * 3),
            d \in build_discovery_queries(RunKeywords, DiscoveryCount(rotation) * 3,
                                          [k \in {} |-> Perf(0, 0, 1)]) }

\* run_crawl, lines 208-222: the tables are there, the queries are generated
RunQueryInit ==
    /\ keywords = RunKeywords
    /\ performance = [k \in {} |-> Perf(0, 0, 1)]
    /\ query_log = << >>
    /\ today = 0
    /\ core = << >>
    /\ discovery = << >>
    /\ queries \in RunQueryLists
    /\ qpos = 1

RunInit ==
    /\ lpc = "query"
    /\ results = << >>

RunOff ==
    /\ lpc = "off"
    /\ results = << >>

\* run_crawl, lines 224-237: the search, the counters, the query_log row
SearchQuery ==
    /\ lpc = "query"
    /\ qpos <= Len(queries)
    /\ \E outcome \in SearchOutcomes :
         LET found == search_google(outcome)
         IN  IF found = Raised
             THEN /\ lpc' = "aborted"
                  /\ UNCHANGED <<stats, query_log, results>>
             ELSE /\ stats' = [stats EXCEPT !.queries_run = @ + 1,
                                            !.results_found = @ + Len(found)]
                  /\ query_log' = log_query(query_log, queries[qpos], today)
                  /\ results' = Take(found, 5)
                  /\ lpc' = "results"
    /\ UNCHANGED <<keywords, performance, today, core, discovery, queries, qpos,
                   raw_crawl, last_store, verifyVars>>

\* run_crawl, lines 240-280: one result page
FetchResult ==
    /\ lpc = "results"
    /\ results # << >>
    /\ \E page \in RunPages : CrawlResultEffect(Head(results), page)
    /\ results' = Tail(results)
    /\ UNCHANGED <<lpc, queryVars, verifyVars>>

\* run_crawl, lines 282-290: the delay, then the next query
NextQueryStep ==
    /\ lpc = "results"
    /\ results = << >>
    /\ qpos' = qpos + 1
    /\ lpc' = "query"
    /\ UNCHANGED <<keywords, performance, query_log, today, core, discovery,
                   queries, results, crawlVars, verifyVars>>

\* run_crawl, lines 292-299: the statistics are saved and returned
CrawlReturns ==
    /\ lpc = "query"
    /\ qpos = Len(queries) + 1
    /\ lpc' = "crawled"
    /\ UNCHANGED <<results, queryVars, crawlVars, verifyVars>>

\* main goes on to run_phase2: what run_crawl held in its locals is gone
CrawlLocalsGone ==
    /\ queries' = << >>
    /\ qpos' = 0
    /\ stats' = NewStats
    /\ last_store' = NoCall
    /\ UNCHANGED <<keywords, performance, query_log, today, core, discovery,
                   raw_crawl, results>>

RunPhase2Starts ==
    /\ lpc = "crawled"
    /\ lpc' = "extract"
    /\ CrawlLocalsGone
    /\ UNCHANGED verifyVars

\* run_phase2 for one capture: the answer is parsed and stored
RunExtractPage ==
    /\ lpc = "extract"
    /\ \E i \in Unextracted(raw_crawl, extracted_signals), response \in RunResponses :
          extracted_signals' =
              store_extracted_signals(
                  extracted_signals,
                  parse_extraction_response(response, raw_crawl[i].source_hash),
                  today)
    /\ UNCHANGED <<lpc, results, queryVars, crawlVars, verified_signals, unverified,
                   vpc>>

\* run_phase2 returns; run_verification starts with its SELECT
RunStartVerification ==
    /\ lpc = "extract"
    /\ StartVerification
    /\ lpc' = "verifying"
    /\ UNCHANGED <<results, queryVars, crawlVars>>

RunVerifySignal ==
    /\ lpc = "verifying"
    /\ VerifySignal
    /\ UNCHANGED <<lpc, results, queryVars, crawlVars>>

RunFinishVerification ==
    /\ lpc = "verifying"
    /\ FinishVerification
    /\ lpc' = "done"
    /\ UNCHANGED <<results, queryVars, crawlVars>>

-----------------------------------------------------------------------------
(* The checks of run_verification: which of them are made for a candidate.   *)

\* the check stops at a failed quote
ChecksFor_stops_at_failed_quote(signal) ==
    LET fm == fuzzy_match(signal.original_quote, Chars(signal.raw_text))
        company == Or(signal.company_name, signal.person_company)
    IN  IF QuoteStatus(fm.passed, fm.similarity) = "failed"
        THEN <<"fuzzy_match">>
        ELSE <<"fuzzy_match", "check_url_alive">>
             \o (IF company # None THEN <<"verify_company_allabolag">> ELSE << >>)
             \o <<"check_duplicate">>

\* run_verification, lines 216-235: the calls made for one candidate, in
\* their order; verify_company_allabolag under `if company:`
ChecksFor(signal) ==
    LET company == Or(signal.company_name, signal.person_company)
    IN  <<"fuzzy_match", "check_url_alive">>
        \o (IF company # None THEN <<"verify_company_allabolag">> ELSE << >>)
        \o <<"check_duplicate">>

CallsInit == calls = << >>

CallsOff == calls = << >>

\* one iteration of the loop with its calls
CheckedVerifySignal ==
    /\ VerifySignal
    /\ \E signal \in unverified \ unverified' :
          \E made \in {ChecksFor(signal)} :
             calls' = calls \o [i \in 1..Len(made) |->
                                  [signal_id |-> signal.id, check |-> made[i]]]
    /\ UNCHANGED crawlVars

\* the candidates the extraction model answers with here: a company of its
\* own and a quote of the page, the person's company and a quote that is not
\* on the page, no company at all
CheckSignals ==
    { LLMSignal(S4("A", "B", "X", "Y"), TRUE, S1("p"), S1("c"), None),
      LLMSignal(S4("a", "b", "c", "d"), TRUE, None, None, S1("c")),
      LLMSignal(S4("z", "a", "b", "q"), TRUE, S1("p"), None, None) }

\* one iteration of run_phase2's loop
ChecksExtractPage ==
    /\ vpc = "idle"
    /\ \E i \in Unextracted(raw_crawl, extracted_signals),
          n \in 1..(MaxSignals - Len(extracted_signals)) :
         \E response \in [1..n -> CheckSignals] :
            extracted_signals' =
                store_extracted_signals(
                    extracted_signals,
                    parse_extraction_response(response, raw_crawl[i].source_hash),
                    today)
    /\ UNCHANGED <<verified_signals, unverified, vpc, crawlVars, calls>>

ChecksStartVerification == StartVerification /\ UNCHANGED <<crawlVars, calls>>

ChecksFinishVerification == FinishVerification /\ UNCHANGED <<crawlVars, calls>>

-----------------------------------------------------------------------------
(* check_duplicate over successive runs: candidates that share a person or   *)
(* a company with an earlier one, and the days between them.                 *)

\* the candidates the extraction model answers with here, all with the quote
\* of the page: a person and a company, the same person at another company,
\* another person at the same company, neither
DupSignals ==
    { LLMSignal(S4("A", "B", "X", "Y"), TRUE, S1("p"), S1("c"), None),
      LLMSignal(S4("A", "B", "X", "Y"), TRUE, S1("p"), S1("d"), None),
      LLMSignal(S4("a", "b", "x", "y"), TRUE, S1("q"), None, S1("c")),
      LLMSignal(S4("a", "b", "x", "y"), TRUE, None, None, None) }

\* one iteration of run_phase2's loop
DupExtractPage ==
    /\ vpc = "idle"
    /\ \E i \in Unextracted(raw_crawl, extracted_signals),
          signal \in DupSignals :
            extracted_signals' =
                store_extracted_signals(
                    extracted_signals,
                    parse_extraction_response(<<signal>>, raw_crawl[i].source_hash),
                    today)
    /\ Len(extracted_signals) < MaxSignals
    /\ UNCHANGED <<verified_signals, unverified, vpc, crawlVars, queryVars>>

DupStartVerification == StartVerification /\ UNCHANGED <<crawlVars, queryVars>>

DupVerifySignal == VerifySignal /\ UNCHANGED <<crawlVars, queryVars>>

DupFinishVerification == FinishVerification /\ UNCHANGED <<crawlVars, queryVars>>

\* between two runs a day passes, up to the day after the window
DupDayPasses ==
    /\ vpc = "idle"
    /\ today <= DuplicateWindowDays
    /\ today' = today + 1
    /\ UNCHANGED <<keywords, performance, query_log, core, discovery, queries, qpos,
                   crawlVars, verifyVars>>

-----------------------------------------------------------------------------
(* A run whose discovery keyword is tracked in keyword_history: what the     *)
(* run does to the keyword's counters, up to the end of run_phase6_keywords. *)

\* keyword_history holds the discovery keyword of the keyword file, tracked
\* by run_phase6_keywords when an earlier run had it suggested
UsageInit ==
    /\ keyword_history =
          TrackAll(<< >>, RunKeywords.discovery_keywords.from_signals)
    /\ evolve_last = NoEvolveCall

\* main after run_phase3: run_phase6_keywords ends the run
UsagePhase6 ==
    /\ lpc = "done"
    /\ lpc' = "finished"
    /\ RunPhase6Keywords
    /\ UNCHANGED <<performance, query_log, today, core, discovery, queries, qpos,
                   results, crawlVars, verifyVars>>

-----------------------------------------------------------------------------
(* run_phase2 over successive runs: the SELECT is made once per run, every   *)
(* capture of it is sent to the extraction model once, and the process can   *)
(* terminate anywhere.  store_crawl_result and store_extracted_signals end   *)
(* with a commit, so what a terminated process leaves is whole stores.       *)

MaxCalls == 4

ExtractOff == phase2_rows = {}

BetweenRuns ==
    /\ lpc = "between"
    /\ results = << >>

\* what call_llm may return for a capture: nothing, no signal, a signal that
\* parse_extraction_response drops, one signal, two signals
Phase2Responses ==
    { [answered |-> FALSE, signals |-> << >>],
      [answered |-> TRUE, signals |-> << >>],
      [answered |-> TRUE,
       signals |-> <<LLMSignal(<< >>, FALSE, S1("p"), None, None)>>],
      [answered |-> TRUE,
       signals |-> <<LLMSignal(S4("a", "b", "x", "y"), TRUE, S1("p"), S1("c"), None)>>],
      [answered |-> TRUE,
       signals |-> <<LLMSignal(S4("a", "b", "x", "y"), TRUE, S1("p"), S1("c"), None),
                     LLMSignal(<< >>, TRUE, None, None, None)>>] }

\* run_crawl of a run stores the next capture
Phase2Crawl ==
    /\ lpc = "between"
    /\ StoreCapture
    /\ UNCHANGED <<lpc, results, calls, phase2_rows>>

\* run_phase2, lines 149-158: the SELECT
Phase2Select ==
    /\ lpc = "between"
    /\ phase2_rows' = Unextracted(raw_crawl, extracted_signals)
    /\ lpc' = "extract"
    /\ UNCHANGED <<results, calls, crawlVars, verifyVars>>

\* run_phase2, lines 164-187: one row is sent to the model; its answer, if
\* there is one, is parsed and its signals are stored
Phase2ExtractRow ==
    /\ lpc = "extract"
    /\ Len(calls) < MaxCalls
    /\ \E i \in phase2_rows, response \in Phase2Responses :
         LET source_hash == raw_crawl[i].source_hash
             signals == IF ~response.answered THEN << >>
                        ELSE parse_extraction_response(response.signals, source_hash)
         IN  /\ Len(extracted_signals) + Len(signals) <= MaxSignals
             /\ calls' = Append(calls, [source_hash |-> source_hash])
             /\ extracted_signals' =
                    store_extracted_signals(extracted_signals, signals, today)
             /\ phase2_rows' = phase2_rows \ {i}
    /\ UNCHANGED <<lpc, results, crawlVars, verified_signals, unverified, vpc>>

\* run_phase2, lines 189-190
Phase2Returns ==
    /\ lpc = "extract"
    /\ phase2_rows = {}
    /\ lpc' = "between"
    /\ UNCHANGED <<results, calls, phase2_rows, crawlVars, verifyVars>>

\* the process terminates and a new run starts: what the tables hold stays
Phase2Crash ==
    /\ lpc = "extract"
    /\ lpc' = "between"
    /\ phase2_rows' = {}
    /\ UNCHANGED <<results, calls, crawlVars, verifyVars>>

-----------------------------------------------------------------------------
(* The sleeps of run_crawl: the delay after every query and the pause of    *)
(* lines 286-290, over a run of forty queries whose results, if any, are     *)
(* pages that raw_crawl already holds.                                       *)

BatchSize == 20     \* stats["queries_run"] % 20
MaxQueries == 40    \* the queries of the run

\* run_crawl, line 287: the test before time.sleep(60)
PauseDue(st, zeros) == st.queries_run % BatchSize = 0 /\ st.results_found = 0

PauseOff ==
    /\ zero_run = 0
    /\ sleeps = << >>

\* the queries generate_run_queries returned
PauseQueryInit ==
    /\ keywords = RunKeywords
    /\ performance = [k \in {} |-> Perf(0, 0, 1)]
    /\ query_log = << >>
    /\ today = 0
    /\ core = << >>
    /\ discovery = << >>
    /\ queries = [i \in 1..MaxQueries |->
                     QueryDict(<<"tidsbrist", ToString(i)>>, "core",
                               "general_swedish", None, <<"tidsbrist">>)]
    /\ qpos = 1

\* run_crawl, lines 224-237, seen from the sleeps
PauseSearchQuery ==
    /\ SearchQuery
    /\ zero_run' = IF stats'.results_found = stats.results_found
                   THEN zero_run + 1 ELSE 0
    /\ sleeps' = << >>

\* run_crawl, lines 282-290: the delay, the pause if it is due, the next query
PauseNextQuery ==
    /\ NextQueryStep
    /\ sleeps' = Append(sleeps, "delay")
                     \o (IF PauseDue(stats, zero_run) THEN <<"pause">> ELSE << >>)
    /\ UNCHANGED zero_run

-----------------------------------------------------------------------------
(* Candidates without a quote: what extraction takes in from an answer and   *)
(* what run_verification stores for a candidate whose quote is missing.      *)

\* the signals of an answer: a stated problem without a quote, with a person
\* and a company; neither a quote nor a problem; the quote of the page
IngestSignals ==
    { LLMSignal(<< >>, TRUE, S1("p"), S1("c"), None),
      LLMSignal(<< >>, FALSE, S1("p"), None, None),
      LLMSignal(S4("a", "b", "x", "y"), TRUE, S1("p"), S1("c"), None) }

\* one iteration of run_phase2's loop; calls keeps the latest answer
IngestExtractPage ==
    /\ vpc = "idle"
    /\ \E i \in Unextracted(raw_crawl, extracted_signals), n \in 1..MaxSignals :
         \E response \in [1..n -> IngestSignals] :
            LET source_hash == raw_crawl[i].source_hash
                signals == parse_extraction_response(response, source_hash)
            IN  /\ Len(extracted_signals) + Len(signals) <= MaxSignals
                /\ extracted_signals' =
                       store_extracted_signals(extracted_signals, signals, today)
                /\ calls' = <<[source_hash |-> source_hash, response |-> response]>>
    /\ UNCHANGED <<verified_signals, unverified, vpc, crawlVars>>

\* the parts of the state a specification does not exercise stay as constructed
QueryOff ==
    /\ keywords = KeywordFile(<<W("tidsbrist")>>, << >>, <<W("småföretag")>>, << >>,
                              << >>, << >>, 0, 0, 0)
    /\ performance = [k \in {} |-> 0]
    /\ query_log = << >>
    /\ today = 0
    /\ core = << >>
    /\ discovery = << >>
    /\ queries = << >>
    /\ qpos = 0

CrawlOff == CrawlInit

VerifyOff == VerifyInit

LaterOff == CredOff /\ SchemaOff /\ DurableOff /\ PipeOff /\ RunOff /\
    CallsOff /\ ExtractOff /\ PauseOff

MoreOff == EvolveInit /\ LaterOff

FuzzyOff ==
    /\ fm_quote = << >>
    /\ fm_source = << >>
    /\ fm_result = NotCalled

-----------------------------------------------------------------------------
(* Specification of the query generator over successive runs.              *)

InitQuery == QueryInit /\ CrawlOff /\ VerifyOff /\ FuzzyOff /\ MoreOff

NextQuery ==
    \/ GenerateRunQueries /\ UNCHANGED <<crawlVars, verifyVars, fuzzyVars, moreVars>>
    \/ ExecuteQuery /\ UNCHANGED <<crawlVars, verifyVars, fuzzyVars, moreVars>>
    \/ FinishCrawl /\ UNCHANGED <<crawlVars, verifyVars, fuzzyVars, moreVars>>
    \/ AdvanceDay /\ UNCHANGED <<crawlVars, verifyVars, fuzzyVars, moreVars>>

SpecQuery == InitQuery /\ [][NextQuery]_vars

-----------------------------------------------------------------------------
(* Specification of the capture store under run_crawl's result loop and    *)
(* under direct store_crawl_result calls.                                   *)

InitCrawl == QueryOff /\ CrawlInit /\ VerifyOff /\ FuzzyOff /\ MoreOff

NextCrawl ==
    \/ RunCrawlResult /\ UNCHANGED <<queryVars, verifyVars, fuzzyVars, moreVars>>
    \/ StoreCrawlResult /\ UNCHANGED <<queryVars, verifyVars, fuzzyVars, moreVars>>

SpecCrawl == InitCrawl /\ [][NextCrawl]_vars

-----------------------------------------------------------------------------
(* Specification of extraction and verification over the stored captures.   *)

InitVerify == QueryOff /\ CrawledInit /\ VerifyInit /\ FuzzyOff /\ MoreOff

NextVerify ==
    \/ ExtractPage /\ UNCHANGED <<queryVars, crawlVars, fuzzyVars, moreVars>>
    \/ StartVerification /\ UNCHANGED <<queryVars, crawlVars, fuzzyVars, moreVars>>
    \/ VerifySignal /\ UNCHANGED <<queryVars, crawlVars, fuzzyVars, moreVars>>
    \/ FinishVerification /\ UNCHANGED <<queryVars, crawlVars, fuzzyVars, moreVars>>

SpecVerify == InitVerify /\ [][NextVerify]_vars

-----------------------------------------------------------------------------
(* Specification of fuzzy_match applied to every input of the bounded sets. *)

InitFuzzy == QueryOff /\ CrawlOff /\ VerifyOff /\ FuzzyInit /\ MoreOff

NextFuzzy == FuzzyMatch /\ UNCHANGED <<queryVars, crawlVars, verifyVars, moreVars>>

SpecFuzzy == InitFuzzy /\ [][NextFuzzy]_vars

-----------------------------------------------------------------------------
(* Specification of the keyword file and the keyword table under            *)
(* run_phase6_keywords and update_keyword_stats.                            *)

InitEvolve ==
    /\ \E pool \in DiscoveryPools :
          keywords = KeywordFile(<< >>, << >>, << >>, << >>, pool[1], pool[2], 0, 0, 0)
    /\ performance = [k \in {} |-> 0]
    /\ query_log = << >>
    /\ today = 0
    /\ core = << >>
    /\ discovery = << >>
    /\ queries = << >>
    /\ qpos = 0
    /\ CrawlOff /\ VerifyOff /\ FuzzyOff
    /\ EvolveInit
    /\ LaterOff

evolveFixed == <<performance, query_log, today, core, discovery, queries, qpos,
                 crawlVars, verifyVars, fuzzyVars, laterVars>>

NextEvolve ==
    \/ RunPhase6Keywords /\ UNCHANGED evolveFixed
    \/ UpdateKeywordStats /\ UNCHANGED evolveFixed

SpecEvolve == InitEvolve /\ [][NextEvolve]_vars

-----------------------------------------------------------------------------
(* Specification of the credibility filter applied to one unchecked row.    *)

InitCred ==
    QueryOff /\ CrawlOff /\ VerifyOff /\ FuzzyOff /\ EvolveInit /\ CredInit /\
    SchemaOff /\ DurableOff /\ PipeOff /\ RunOff /\ CallsOff /\ ExtractOff /\
    PauseOff

idleCred ==
    <<queryVars, crawlVars, verifyVars, fuzzyVars, evolveVars, schemaVars,
      durableVars, pipeVars, runVars, callVars, extractVars, pauseVars>>

NextCred ==
    \/ CredibilityCheck /\ UNCHANGED idleCred

SpecCred == InitCred /\ [][NextCred]_vars

-----------------------------------------------------------------------------
(* Specification of validate_schema applied to every input of the sets.     *)

InitSchema ==
    QueryOff /\ CrawlOff /\ VerifyOff /\ FuzzyOff /\ EvolveInit /\ CredOff /\
    SchemaInit /\ DurableOff /\ PipeOff /\ RunOff /\ CallsOff /\ ExtractOff /\
    PauseOff

idleSchema ==
    <<queryVars, crawlVars, verifyVars, fuzzyVars, evolveVars, credVars,
      durableVars, pipeVars, runVars, callVars, extractVars, pauseVars>>

NextSchema ==
    \/ ValidateSchema /\ UNCHANGED idleSchema

SpecSchema == InitSchema /\ [][NextSchema]_vars

-----------------------------------------------------------------------------
(* Specification of the store under a process that can terminate at any     *)
(* point of a crawl or of a verification pass.                               *)

InitDurable ==
    QueryOff /\ CrawlInit /\ VerifyInit /\ FuzzyOff /\ EvolveInit /\
    CredOff /\ SchemaOff /\ DurableInit /\ PipeOff /\ RunOff /\ CallsOff /\
    ExtractOff /\ PauseOff

idleDurable ==
    <<queryVars, fuzzyVars, evolveVars, credVars, schemaVars, pipeVars,
      runVars, callVars, extractVars, pauseVars>>

NextDurable ==
    \/ StoreCapture /\ UNCHANGED idleDurable
    \/ ExtractCommitted /\ UNCHANGED idleDurable
    \/ StartPass /\ UNCHANGED idleDurable
    \/ VerifyUncommitted /\ UNCHANGED idleDurable
    \/ FinishAndCommit /\ UNCHANGED idleDurable
    \/ Crash /\ UNCHANGED idleDurable

SpecDurable == InitDurable /\ [][NextDurable]_vars

-----------------------------------------------------------------------------
(* Specification of one run of main under every flag combination.          *)

InitPipeline ==
    QueryOff /\ CrawlOff /\ VerifyOff /\ FuzzyOff /\ EvolveInit /\ CredOff /\
    SchemaOff /\ DurableOff /\ PipeInit /\ RunOff /\ CallsOff /\ ExtractOff /\
    PauseOff

idlePipeline ==
    <<queryVars, crawlVars, verifyVars, fuzzyVars, evolveVars, credVars,
      schemaVars, durableVars, runVars, callVars, extractVars, pauseVars>>

NextPipeline ==
    \/ CallPhase /\ UNCHANGED idlePipeline
    \/ MainReturns /\ UNCHANGED idlePipeline
    \/ Phase1Crawl /\ UNCHANGED idlePipeline
    \/ Phase2Extract /\ UNCHANGED idlePipeline
    \/ Phase3Verify /\ UNCHANGED idlePipeline
    \/ Phase4Analyze /\ UNCHANGED idlePipeline
    \/ Phase5Brief /\ UNCHANGED idlePipeline
    \/ Phase6Keywords /\ UNCHANGED idlePipeline

SpecPipeline == InitPipeline /\ [][NextPipeline]_vars

-----------------------------------------------------------------------------
(* Specification of a run whose items fail in every combination, under      *)
(* weak fairness of its steps.                                               *)

InitRun ==
    RunQueryInit /\ CrawlInit /\ VerifyInit /\ FuzzyOff /\ EvolveInit /\
    CredOff /\ SchemaOff /\ DurableOff /\ PipeOff /\ RunInit /\ CallsOff /\
    ExtractOff /\ PauseOff

idleRun ==
    <<fuzzyVars, evolveVars, credVars, schemaVars, durableVars, pipeVars,
      callVars, extractVars, pauseVars>>

NextRun ==
    \/ SearchQuery /\ UNCHANGED idleRun
    \/ FetchResult /\ UNCHANGED idleRun
    \/ NextQueryStep /\ UNCHANGED idleRun
    \/ CrawlReturns /\ UNCHANGED idleRun
    \/ RunPhase2Starts /\ UNCHANGED idleRun
    \/ RunExtractPage /\ UNCHANGED idleRun
    \/ RunStartVerification /\ UNCHANGED idleRun
    \/ RunVerifySignal /\ UNCHANGED idleRun
    \/ RunFinishVerification /\ UNCHANGED idleRun

\* the steps of the run other than the verification of one candidate
RunStep ==
    \/ SearchQuery /\ UNCHANGED idleRun
    \/ FetchResult /\ UNCHANGED idleRun
    \/ NextQueryStep /\ UNCHANGED idleRun
    \/ CrawlReturns /\ UNCHANGED idleRun
    \/ RunPhase2Starts /\ UNCHANGED idleRun
    \/ RunExtractPage /\ UNCHANGED idleRun
    \/ RunStartVerification /\ UNCHANGED idleRun
    \/ RunFinishVerification /\ UNCHANGED idleRun

\* ENABLED of the verification step, written out: the loop is running and a
\* candidate is pending; every outcome of the step's lookups is handled, so
\* the step is possible in each such state
RunVerifyEnabled == lpc = "verifying" /\ unverified # {}

\* weak fairness of the verification step with that enabling condition
RunVerifyFair ==
    \/ []<>~RunVerifyEnabled
    \/ []<><<RunVerifySignal /\ UNCHANGED idleRun>>_vars

\* the process is sequential and always takes its next step
SpecRun ==
    InitRun /\ [][NextRun]_vars /\ WF_vars(RunStep) /\ RunVerifyFair

-----------------------------------------------------------------------------
(* Specification of fuzzy_match on quotes around fifty characters.           *)

InitFuzzyLong ==
    QueryOff /\ CrawlOff /\ VerifyOff /\ FuzzyLongInit /\ EvolveInit /\
    CredOff /\ SchemaOff /\ DurableOff /\ PipeOff /\ RunOff /\ CallsOff /\
    ExtractOff /\ PauseOff

idleFuzzyLong ==
    <<queryVars, crawlVars, verifyVars, evolveVars, credVars, schemaVars,
      durableVars, pipeVars, runVars, callVars, extractVars, pauseVars>>

NextFuzzyLong ==
    \/ FuzzyMatch /\ UNCHANGED idleFuzzyLong

SpecFuzzyLong == InitFuzzyLong /\ [][NextFuzzyLong]_vars

-----------------------------------------------------------------------------
(* Specification of extraction and verification with the calls of each      *)
(* verification recorded.                                                   *)

InitChecks ==
    QueryOff /\ CrawledInit /\ VerifyInit /\ FuzzyOff /\ EvolveInit /\
    CredOff /\ SchemaOff /\ DurableOff /\ PipeOff /\ RunOff /\ CallsInit /\
    ExtractOff /\ PauseOff

idleChecks ==
    <<queryVars, fuzzyVars, evolveVars, credVars, schemaVars, durableVars,
      pipeVars, runVars, extractVars, pauseVars>>

NextChecks ==
    \/ ChecksExtractPage /\ UNCHANGED idleChecks
    \/ ChecksStartVerification /\ UNCHANGED idleChecks
    \/ CheckedVerifySignal /\ UNCHANGED idleChecks
    \/ ChecksFinishVerification /\ UNCHANGED idleChecks

SpecChecks == InitChecks /\ [][NextChecks]_vars

-----------------------------------------------------------------------------
(* Specification of extraction and verification over several days, with     *)
(* candidates that share names.                                             *)

InitDup ==
    QueryOff /\ CrawledInit /\ VerifyInit /\ FuzzyOff /\ EvolveInit /\
    CredOff /\ SchemaOff /\ DurableOff /\ PipeOff /\ RunOff /\ CallsOff /\
    ExtractOff /\ PauseOff

idleDup ==
    <<fuzzyVars, evolveVars, credVars, schemaVars, durableVars, pipeVars,
      runVars, callVars, extractVars, pauseVars>>

NextDup ==
    \/ DupExtractPage /\ UNCHANGED idleDup
    \/ DupStartVerification /\ UNCHANGED idleDup
    \/ DupVerifySignal /\ UNCHANGED idleDup
    \/ DupFinishVerification /\ UNCHANGED idleDup
    \/ DupDayPasses /\ UNCHANGED idleDup

SpecDup == InitDup /\ [][NextDup]_vars

-----------------------------------------------------------------------------
(* Specification of a run with a tracked discovery keyword, under weak       *)
(* fairness of its steps.                                                    *)

InitUsage ==
    RunQueryInit /\ CrawlInit /\ VerifyInit /\ FuzzyOff /\ UsageInit /\
    CredOff /\ SchemaOff /\ DurableOff /\ PipeOff /\ RunInit /\ CallsOff /\
    ExtractOff /\ PauseOff

idleUsage ==
    <<fuzzyVars, credVars, schemaVars, durableVars, pipeVars, callVars,
      extractVars, pauseVars>>

NextUsage ==
    \/ SearchQuery /\ UNCHANGED <<idleUsage, evolveVars>>
    \/ FetchResult /\ UNCHANGED <<idleUsage, evolveVars>>
    \/ NextQueryStep /\ UNCHANGED <<idleUsage, evolveVars>>
    \/ CrawlReturns /\ UNCHANGED <<idleUsage, evolveVars>>
    \/ RunPhase2Starts /\ UNCHANGED <<idleUsage, evolveVars>>
    \/ RunExtractPage /\ UNCHANGED <<idleUsage, evolveVars>>
    \/ RunStartVerification /\ UNCHANGED <<idleUsage, evolveVars>>
    \/ RunVerifySignal /\ UNCHANGED <<idleUsage, evolveVars>>
    \/ RunFinishVerification /\ UNCHANGED <<idleUsage, evolveVars>>
    \/ UsagePhase6 /\ UNCHANGED idleUsage

\* the steps of the run other than the verification of one candidate
UsageStep ==
    \/ SearchQuery /\ UNCHANGED <<idleUsage, evolveVars>>
    \/ FetchResult /\ UNCHANGED <<idleUsage, evolveVars>>
    \/ NextQueryStep /\ UNCHANGED <<idleUsage, evolveVars>>
    \/ CrawlReturns /\ UNCHANGED <<idleUsage, evolveVars>>
    \/ RunPhase2Starts /\ UNCHANGED <<idleUsage, evolveVars>>
    \/ RunExtractPage /\ UNCHANGED <<idleUsage, evolveVars>>
    \/ RunStartVerification /\ UNCHANGED <<idleUsage, evolveVars>>
    \/ RunFinishVerification /\ UNCHANGED <<idleUsage, evolveVars>>
    \/ UsagePhase6 /\ UNCHANGED idleUsage

\* ENABLED of the verification step, written out: the loop is running and a
\* candidate is pending; every outcome of the step's lookups is handled, so
\* the step is possible in each such state
UsageVerifyEnabled == lpc = "verifying" /\ unverified # {}

\* weak fairness of the verification step with that enabling condition
UsageVerifyFair ==
    \/ []<>~UsageVerifyEnabled
    \/ []<><<RunVerifySignal /\ UNCHANGED <<idleUsage, evolveVars>>>>_vars

\* the process is sequential and always takes its next step
SpecUsage ==
    InitUsage /\ [][NextUsage]_vars /\ WF_vars(UsageStep) /\ UsageVerifyFair

-----------------------------------------------------------------------------
(* Specification of run_phase2 over successive runs that can terminate       *)
(* anywhere.                                                                 *)

InitExtract ==
    QueryOff /\ CrawlInit /\ VerifyInit /\ FuzzyOff /\ EvolveInit /\
    CredOff /\ SchemaOff /\ DurableOff /\ PipeOff /\ BetweenRuns /\
    CallsInit /\ ExtractOff /\ PauseOff

idleExtract ==
    <<queryVars, fuzzyVars, evolveVars, credVars, schemaVars, durableVars,
      pipeVars, pauseVars>>

NextExtract ==
    \/ Phase2Crawl /\ UNCHANGED idleExtract
    \/ Phase2Select /\ UNCHANGED idleExtract
    \/ Phase2ExtractRow /\ UNCHANGED idleExtract
    \/ Phase2Returns /\ UNCHANGED idleExtract
    \/ Phase2Crash /\ UNCHANGED idleExtract

SpecExtract == InitExtract /\ [][NextExtract]_vars

-----------------------------------------------------------------------------
(* Specification of the sleeps of run_crawl over a run of forty queries.     *)

InitPause ==
    PauseQueryInit /\ CrawledInit /\ VerifyOff /\ FuzzyOff /\ EvolveInit /\
    CredOff /\ SchemaOff /\ DurableOff /\ PipeOff /\ RunInit /\ CallsOff /\
    ExtractOff /\ PauseOff

idlePause ==
    <<verifyVars, fuzzyVars, evolveVars, credVars, schemaVars, durableVars,
      pipeVars, callVars, extractVars>>

NextPause ==
    \/ PauseSearchQuery /\ UNCHANGED idlePause
    \/ FetchResult /\ UNCHANGED <<idlePause, pauseVars>>
    \/ PauseNextQuery /\ UNCHANGED idlePause
    \/ CrawlReturns /\ UNCHANGED <<idlePause, pauseVars>>

SpecPause == InitPause /\ [][NextPause]_vars

-----------------------------------------------------------------------------
(* Specification of extraction and verification with the answers of the     *)
(* extraction model recorded.                                                *)

InitIngest ==
    QueryOff /\ CrawledInit /\ VerifyInit /\ FuzzyOff /\ EvolveInit /\
    CredOff /\ SchemaOff /\ DurableOff /\ PipeOff /\ RunOff /\ CallsInit /\
    ExtractOff /\ PauseOff

idleIngest ==
    <<queryVars, fuzzyVars, evolveVars, credVars, schemaVars, durableVars,
      pipeVars, runVars, extractVars, pauseVars>>

NextIngest ==
    \/ IngestExtractPage /\ UNCHANGED idleIngest
    \/ StartVerification /\ UNCHANGED <<idleIngest, crawlVars, callVars>>
    \/ VerifySignal /\ UNCHANGED <<idleIngest, crawlVars, callVars>>
    \/ FinishVerification /\ UNCHANGED <<idleIngest, crawlVars, callVars>>

SpecIngest == InitIngest /\ [][NextIngest]_vars
-----------------------------------------------------------------------------
(* Claims about the query generator, checked under SpecQuery.              *)

\* the state in which generate_run_queries has just returned `queries`
Generated == qpos = 1

DistinctTexts(pool) == { pool[i].query : i \in 1..Len(pool) }
CountType(qs, type) == Cardinality({ i \in 1..Len(qs) : qs[i].type = type })

\* C1: the list returned by generate_run_queries never holds two queries with
\* the same query text.
C1_NoDuplicateText ==
    Generated =>
        \A i, j \in 1..Len(queries) : i # j => queries[i].query # queries[j].query

\* C2: no query returned by generate_run_queries has the text of a query_log
\* row whose run_date lies within the trailing cooldown window.
C2_CooldownRespected ==
    Generated =>
        \A i \in 1..Len(queries), j \in 1..Len(query_log) :
            query_log[j].run_date >= today - keywords.rotation.cooldown_days_before_reuse
                => query_log[j].query_text # queries[i].query

\* C2 witness: a run was generated while the log held a row inside the window,
\* and the returned list was completed by the backfill.
C2_Witness ==
    /\ Generated
    /\ Len(queries) > Len(Take(core, CoreCount(keywords.rotation)))
                        + Len(Take(discovery, DiscoveryCount(keywords.rotation)))
    /\ \E j \in 1..Len(query_log) :
          query_log[j].run_date >= today - keywords.rotation.cooldown_days_before_reuse

\* C3: when the filtered core pool holds at least int(N*r) distinct texts and
\* the filtered discovery pool at least N - int(N*r), exactly N queries are
\* returned, int(N*r) of type core and N - int(N*r) of type discovery.
C3_RatioMet ==
    (/\ Generated
     /\ Cardinality(DistinctTexts(core)) >= CoreCount(keywords.rotation)
     /\ Cardinality(DistinctTexts(discovery)) >= DiscoveryCount(keywords.rotation))
    => /\ Len(queries) = keywords.rotation.queries_per_run
       /\ CountType(queries, "core") = CoreCount(keywords.rotation)
       /\ CountType(queries, "discovery") = DiscoveryCount(keywords.rotation)

\* C3 witness: both pools were large enough after a cooldown filter that had
\* rows to filter with.
C3_Witness ==
    /\ Generated
    /\ query_log # << >>
    /\ Cardinality(DistinctTexts(core)) >= CoreCount(keywords.rotation)
    /\ Cardinality(DistinctTexts(discovery)) >= DiscoveryCount(keywords.rotation)
    /\ CoreCount(keywords.rotation) > 0
    /\ DiscoveryCount(keywords.rotation) > 0

\* C4: the returned list has length min(N, number of distinct filtered
\* candidates of both pools), never more than N queries, and never the same
\* candidate twice.
C4_BackfillExact ==
    Generated =>
        /\ Len(queries) = Min(keywords.rotation.queries_per_run,
                              Cardinality(Range(core) \cup Range(discovery)))
        /\ Len(queries) <= keywords.rotation.queries_per_run
        /\ \A i, j \in 1..Len(queries) : i # j => queries[i] # queries[j]

-----------------------------------------------------------------------------
(* Claims about the capture store, checked under SpecCrawl.                 *)

\* a step that is a store_crawl_result call on its own
StoreStep == last_store'.op = "store" /\ <<raw_crawl, last_store>>' # <<raw_crawl, last_store>>

\* a step that is one iteration of run_crawl's result loop
CrawlStep ==
    /\ last_store'.op \in {"crawl_known_url", "crawl_skipped", "crawl_store"}
    /\ <<raw_crawl, stats, last_store>>' # <<raw_crawl, stats, last_store>>

SamePrefix(t1, t2) == StrTake(t1, HashPrefix) = StrTake(t2, HashPrefix)

\* C5: a store_crawl_result call whose url equals a stored capture's and whose
\* text agrees with it on the first 500 characters computes that capture's
\* hash, returns None, inserts nothing and changes no row; no two raw_crawl
\* rows ever share a source_hash.
C5_ContentAddressed ==
    /\ [](\A i, j \in 1..Len(raw_crawl) :
             i # j => raw_crawl[i].source_hash # raw_crawl[j].source_hash)
    /\ [][\A i \in 1..Len(raw_crawl) :
            (/\ StoreStep
             /\ raw_crawl[i].source_url = last_store'.url
             /\ SamePrefix(raw_crawl[i].raw_text, last_store'.raw_text))
            => /\ make_source_hash(last_store'.url, last_store'.raw_text)
                    = raw_crawl[i].source_hash
               /\ last_store'.ret = None
               /\ raw_crawl' = raw_crawl]_vars

\* C5 witness: a direct call was turned away as duplicate of a capture with the
\* same url whose text agrees on the first 500 characters only.
C5_Witness ==
    /\ last_store.op = "store"
    /\ last_store.ret = None
    /\ \E i \in 1..Len(raw_crawl) :
          /\ raw_crawl[i].source_url = last_store.url
          /\ raw_crawl[i].raw_text # last_store.raw_text
          /\ SamePrefix(raw_crawl[i].raw_text, last_store.raw_text)

\* the page of the step has the url of a stored capture and a text that
\* differs from every stored capture of that url within the first 500
\* characters
KnownUrlNewText ==
    /\ \E i \in 1..Len(raw_crawl) : raw_crawl[i].source_url = last_store'.url
    /\ \A i \in 1..Len(raw_crawl) :
          raw_crawl[i].source_url = last_store'.url
             => ~SamePrefix(raw_crawl[i].raw_text, last_store'.raw_text)

\* C6: a fetched page (at least 100 characters) with the url of a stored
\* capture and a different text within the first 500 characters is persisted
\* as a new capture when run_crawl meets it.
C6_AcceptedByCrawl ==
    [][(/\ CrawlStep
        /\ StrLen(last_store'.raw_text) >= MinTextLen
        /\ KnownUrlNewText)
       => /\ Len(raw_crawl') = Len(raw_crawl) + 1
          /\ raw_crawl'[Len(raw_crawl')].source_url = last_store'.url
          /\ raw_crawl'[Len(raw_crawl')].raw_text = last_store'.raw_text]_vars

\* C6 as amended: store_crawl_result gives such a page a hash different from
\* that of every stored capture of its url and persists it unless another
\* capture carries that hash; run_crawl skips every result whose url is
\* stored, counts it as duplicate and stores nothing.
C6_AcceptedByStoreOnly ==
    /\ [][(StoreStep /\ KnownUrlNewText)
          => /\ \A i \in 1..Len(raw_crawl) :
                   raw_crawl[i].source_url = last_store'.url
                      => raw_crawl[i].source_hash
                           # make_source_hash(last_store'.url, last_store'.raw_text)
             /\ \/ /\ last_store'.ret # None
                   /\ Len(raw_crawl') = Len(raw_crawl) + 1
                   /\ raw_crawl'[Len(raw_crawl')].source_hash = last_store'.ret
                   /\ raw_crawl'[Len(raw_crawl')].source_url = last_store'.url
                   /\ raw_crawl'[Len(raw_crawl')].raw_text = last_store'.raw_text
                \/ /\ last_store'.ret = None
                   /\ raw_crawl' = raw_crawl
                   /\ \E i \in 1..Len(raw_crawl) :
                         /\ raw_crawl[i].source_url # last_store'.url
                         /\ raw_crawl[i].source_hash
                              = make_source_hash(last_store'.url, last_store'.raw_text)]_vars
    /\ [][(CrawlStep /\ \E i \in 1..Len(raw_crawl) :
                            raw_crawl[i].source_url = last_store'.url)
          => /\ raw_crawl' = raw_crawl
             /\ last_store'.op = "crawl_known_url"
             /\ stats'.duplicates = stats.duplicates + 1
             /\ stats'.pages_stored = stats.pages_stored]_vars

\* C6 witness: run_crawl has just skipped, as known url, a page whose text
\* differs from the stored capture of that url within the first 500
\* characters, and a direct store of such a page has happened as well.
C6_Witness ==
    /\ last_store.op = "crawl_known_url"
    /\ StrLen(last_store.raw_text) >= MinTextLen
    /\ \E i \in 1..Len(raw_crawl) : raw_crawl[i].source_url = last_store.url
    /\ \A i \in 1..Len(raw_crawl) :
          raw_crawl[i].source_url = last_store.url
             => ~SamePrefix(raw_crawl[i].raw_text, last_store.raw_text)
    /\ \E i, j \in 1..Len(raw_crawl) :
          /\ i < j
          /\ raw_crawl[i].source_url = raw_crawl[j].source_url


-----------------------------------------------------------------------------
(* Claims about verification (SpecVerify)                                   *)

ResultsFor(id) == { v \in 1..Len(verified_signals) : verified_signals[v].signal_id = id }

AtMostOneResult ==
    \A k \in 1..Len(extracted_signals) :
        Cardinality(ResultsFor(extracted_signals[k].id)) <= 1

\* the rows present stay as they are, and a row that is added is for a
\* candidate that had no result
ResultsAppendOnly ==
    /\ Len(verified_signals') >= Len(verified_signals)
    /\ SubSeq(verified_signals', 1, Len(verified_signals)) = verified_signals
    /\ \A v \in (Len(verified_signals) + 1)..Len(verified_signals') :
          ResultsFor(verified_signals'[v].signal_id) = {}

\* C7: over any sequence of verification passes and extractions (a pass with
\* nothing new included) every extracted_signals row has at most one
\* verified_signals row, and a verified_signals row is never updated, never
\* deleted and never followed by a second row for the same candidate.
C7_OneTerminalResult == []AtMostOneResult /\ [][ResultsAppendOnly]_vars

\* a pass is running with nothing left to verify, over two candidates from
\* two pages that both have their result
C7_Witness ==
    /\ vpc = "loop"
    /\ unverified = {}
    /\ Len(extracted_signals) = 2
    /\ extracted_signals[1].source_hash # extracted_signals[2].source_hash
    /\ \A k \in 1..2 : Cardinality(ResultsFor(k)) = 1

\* the priority as stated: failed quote, then dead URL, then the weak cases
StatedFinalStatus(quote_check, url_check) ==
    IF quote_check = "failed" THEN "rejected"
    ELSE IF url_check = "dead" THEN "rejected"
    ELSE IF quote_check = "partial" \/ url_check = "timeout" THEN "weak"
    ELSE "verified"

\* C8: every persisted result has final_status given by the fixed priority
\* over its (quote_check, url_check) pair alone: rejected for a failed quote,
\* else rejected for a dead URL, else weak for a partial quote or a timeout,
\* else verified; company check and duplicate flag play no part.
C8_FinalStatusPriority ==
    \A v \in 1..Len(verified_signals) :
        LET r == verified_signals[v]
        IN  /\ r.quote_check \in {"passed", "partial", "failed"}
            /\ r.url_check \in UrlStatuses
            /\ r.final_status = StatedFinalStatus(r.quote_check, r.url_check)

\* a flagged duplicate with a passed quote and a timed-out URL is weak, next
\* to a result with a verified company
C8_Witness ==
    \E v, w \in 1..Len(verified_signals) :
        /\ verified_signals[v].is_duplicate = 1
        /\ verified_signals[v].quote_check = "passed"
        /\ verified_signals[v].url_check = "timeout"
        /\ verified_signals[v].final_status = "weak"
        /\ verified_signals[w].company_verified = 1
        /\ verified_signals[w].final_status = "verified"

\* the classification as stated: passed from 0.65, partial from 0.5, failed below
StatedQuoteCheck(s) ==
    IF FracGE(s, Frac(65, 100)) THEN "passed"
    ELSE IF FracGE(s, Frac(5, 10)) THEN "partial"
    ELSE "failed"

\* C9: every persisted result has quote_check passed for a similarity of at
\* least 0.65, partial for a similarity of at least 0.5 and below 0.65 (0.5
\* itself included) and failed below 0.5; so quote_check is passed exactly
\* when the persisted quote_similarity is at least 0.65.
C9_QuoteClassification ==
    \A v \in 1..Len(verified_signals) :
        LET r == verified_signals[v]
        IN  /\ r.quote_check = StatedQuoteCheck(r.quote_similarity)
            /\ r.quote_check = "passed" <=> FracGE(r.quote_similarity, Frac(65, 100))

-----------------------------------------------------------------------------
(* Claims about fuzzy_match (SpecFuzzy)                                     *)

Matched == fm_result # NotCalled

\* trimmed, lower-cased, whitespace runs collapsed to one blank
TrimLowerCollapse(s) == CollapseSpace(Lower(Strip(s)))

NormalizedQuoteInSource ==
    /\ fm_quote # << >>
    /\ fm_source # << >>
    /\ IsSubstring(TrimLowerCollapse(fm_quote), TrimLowerCollapse(fm_source))

\* C10: for a non-empty quote and a non-empty source, when the normalized
\* quote (trimmed, lower-cased, whitespace collapsed) is a substring of the
\* normalized source, fuzzy_match returns (True, 1.0) from the exact-match
\* return, before the sliding window and the half-quote fallback.
C10_ExactSubstringShortCircuit ==
    (Matched /\ NormalizedQuoteInSource) =>
        /\ fm_result.passed
        /\ fm_result.similarity = Frac(1, 1)
        /\ fm_result.via = "exact"

\* a quote that occurs in the source only after normalization (case and
\* whitespace differ in the raw strings) has been matched
C10_Witness ==
    /\ Matched
    /\ NormalizedQuoteInSource
    /\ ~IsSubstring(fm_quote, fm_source)
    /\ ~IsSubstring(Lower(fm_quote), Lower(fm_source))
    /\ Len(TrimLowerCollapse(fm_quote)) >= 2
    /\ fm_result.via = "exact"

-----------------------------------------------------------------------------
(* Claims about keyword evolution (SpecEvolve)                              *)

\* the query text carries the keyword between double quotes
QuotedIn(kw, text) == IsSubstring(<<Quote>> \o kw \o <<Quote>>, text)

HitRateIsRatio ==
    \A r \in 1..Len(keyword_history) :
        LET row == keyword_history[r]
        IN  /\ row.times_produced_signal <= row.times_used
            /\ row.times_used > 0 =>
                  row.hit_rate.num * row.times_used
                      = row.times_produced_signal * row.hit_rate.den
            /\ row.times_used = 0 => row.hit_rate.num = 0

UnsuccessfulUseCountsOnce ==
    (evolve_last'.op = "update_keyword_stats" /\ ~evolve_last'.produced_signal) =>
        \A r \in 1..Len(keyword_history) :
            LET row == keyword_history[r]
            IN  (row.times_used > 0 /\ QuotedIn(row.keyword, evolve_last'.query_text)) =>
                   /\ keyword_history'[r].times_used = row.times_used + 1
                   /\ keyword_history'[r].times_produced_signal = row.times_produced_signal
                   /\ keyword_history'[r].hit_rate.num * (row.times_used + 1)
                         = row.times_produced_signal * keyword_history'[r].hit_rate.den

UnsuccessfulUseCountsEachQuote ==
    (evolve_last'.op = "update_keyword_stats" /\ ~evolve_last'.produced_signal) =>
        \A r \in 1..Len(keyword_history) :
            LET row == keyword_history[r]
                n   == Count(FindQuoted(evolve_last'.query_text), row.keyword)
            IN  /\ keyword_history'[r].times_used = row.times_used + n
                /\ keyword_history'[r].times_produced_signal = row.times_produced_signal
                /\ (row.times_used > 0 /\ n > 0) =>
                      keyword_history'[r].hit_rate.num * (row.times_used + n)
                          = row.times_produced_signal * keyword_history'[r].hit_rate.den

DiscoveryPool ==
    keywords.discovery_keywords.from_signals \o keywords.discovery_keywords.adjacent_terms

\* C12: the discovery pool (from_signals and adjacent_terms) never holds a
\* term twice after a merge, and update_keywords_file applied a second time
\* with the same new_keywords and retire lists leaves the pool as the first
\* application left it.
C12_MergeIdempotent ==
    /\ \A i, j \in 1..Len(DiscoveryPool) : i # j => DiscoveryPool[i] # DiscoveryPool[j]
    /\ \A new_kws \in TermLists(2), retire \in TermLists(1) :
          LET once == update_keywords_file(keywords, new_kws, retire)
          IN  update_keywords_file(once, new_kws, retire) = once

-----------------------------------------------------------------------------
(* Claims about the credibility filter, checked under SpecCred.             *)

\* the sponsorship markers the markup matches and the path markers the URL
\* contains, as red flags
MatchedMarkers(url, html) ==
    { RedFlag("sponsored_marker", sponsored_patterns[i].name) :
          i \in { j \in 1..Len(sponsored_patterns) :
                      ReSearch(sponsored_patterns[j].re, html) } }
    \cup
    { RedFlag("url_contains", url_red_flags[i].name) :
          i \in { j \in 1..Len(url_red_flags) :
                      IsSubstring(url_red_flags[j].s, PyLower(url)) } }

PathMarkers(url) ==
    { i \in 1..Len(url_red_flags) : IsSubstring(url_red_flags[i].s, PyLower(url)) }

\* C13: a row whose markup matches a sponsorship marker or whose URL contains
\* a sponsored-section path marker is auto-rejected, carries exactly one red
\* flag for every matched marker and gets the verdict reject; every URL with
\* the same path markers, whatever its geography, gets the same verdict with
\* the same markup.
C13_SponsoredRejected ==
    (cred_result.done /\ MatchedMarkers(cred_url, cred_html) # {}) =>
        /\ cred_result.check.auto_reject
        /\ \A m \in MatchedMarkers(cred_url, cred_html) :
              Count(cred_result.check.red_flags, m) = 1
        /\ cred_result.verdict = "reject"
        /\ \A other \in CredUrls :
              PathMarkers(other) = PathMarkers(cred_url) =>
                  Verdict(deterministic_credibility_check(other, cred_html))
                      = cred_result.verdict

\* a source outside the region with a path marker and a marked markup
C13_Witness ==
    /\ cred_result.done
    /\ cred_url = <<"h","t","t","p","s",":","/","/","t","e","c","h","c","r","u","n","c","h",".","c","o","m","/","S","p","o","n","s","o","r","e","d","/","a">>
    /\ cred_html = <<"B","r","a","n","d"," ","S","t","u","d","i","o"," ","i"," ","s","a","m","a","r","b","e","t","e"," ","m","e","d"," ","M">>
    /\ ~cred_result.check.is_nordic
    /\ Len(cred_result.check.red_flags) = 4
    /\ cred_result.verdict = "reject"

\* the parts of a URL: the host between "://" and the next "/", the rest
RECURSIVE FindFrom(_, _, _)
FindFrom(t, s, pos) ==
    IF pos + Len(t) - 1 > Len(s) THEN 0
    ELSE IF SubSeq(s, pos, pos + Len(t) - 1) = t THEN pos
    ELSE FindFrom(t, s, pos + 1)

HostStart(url) ==
    LET p == FindFrom(<<":","/","/">>, url, 1) IN IF p = 0 THEN 1 ELSE p + 3

HostEnd(url) ==
    LET p == FindFrom(<<"/">>, url, HostStart(url)) IN IF p = 0 THEN Len(url) ELSE p - 1

Host(url) == PyLower(SubSeq(url, HostStart(url), HostEnd(url)))

PathAndQuery(url) == SubSeq(url, HostEnd(url) + 1, Len(url))

EndsWith(s, t) == Len(t) <= Len(s) /\ SubSeq(s, Len(s) - Len(t) + 1, Len(s)) = t

StartsWith(s, t) == Len(t) <= Len(s) /\ SubSeq(s, 1, Len(t)) = t

\* the host is the platform's domain or one of its subdomains
OnPlatform(url, domain) ==
    Host(url) = domain \/ EndsWith(Host(url), <<".">> \o domain)

\* regional as stated: by the host's top-level domain or name off the
\* platforms, by the country subdomain or the tl=sv parameter on LinkedIn,
\* by the subreddit path on Reddit
StatedRegional(url) ==
    IF OnPlatform(url, <<"l","i","n","k","e","d","i","n",".","c","o","m">>)
    THEN \/ \E nl \in nordic_linkedin : StartsWith(Host(url), nl)
         \/ IsSubstring(<<"?","t","l","=","s","v">>, PathAndQuery(url))
         \/ IsSubstring(<<"&","t","l","=","s","v">>, PathAndQuery(url))
    ELSE IF OnPlatform(url, <<"r","e","d","d","i","t",".","c","o","m">>)
    THEN \E sub \in nordic_subs : IsSubstring(sub, PyLower(PathAndQuery(url)))
    ELSE \/ \E tld \in nordic_tlds : EndsWith(Host(url), tld)
         \/ AnyIn(nordic_domains, Host(url))

\* C14: is_nordic is true exactly when the host's top-level domain or name
\* carries a Nordic token or a platform URL indicates the region; a row that
\* is neither auto-rejected nor regional carries non_nordic_geography and
\* gets the verdict review.
C14_RegionalExactly ==
    cred_result.done =>
        /\ cred_result.check.is_nordic = StatedRegional(cred_url)
        /\ (~cred_result.check.auto_reject /\ ~cred_result.check.is_nordic) =>
              /\ Count(cred_result.check.red_flags,
                       RedFlag("non_nordic_geography", "")) = 1
              /\ cred_result.verdict = "review"

-----------------------------------------------------------------------------
(* Claims about validate_schema, checked under SpecSchema.                  *)

\* the JSON types a Python value of the named type has
JsonTypes(actual_type) ==
    CASE actual_type = "str"   -> {"string"}
      [] actual_type = "int"   -> {"integer", "number"}
      [] actual_type = "float" -> {"number"}
      [] actual_type = "bool"  -> {"boolean"}
      [] actual_type = "list"  -> {"array"}
      [] actual_type = "dict"  -> {"object"}
      [] actual_type = "NoneType" -> {"null"}

\* the value's type differs from the declared one
TypeDiffers(actual_type, decl) ==
    /\ decl.kind # "none"
    /\ JsonTypes(actual_type) \cap Range(decl.names) = {}

RequiredAbsent ==
    \E field \in vs_schema.required : field \notin DOMAIN vs_data

SomeTypeDiffers ==
    \E field \in DOMAIN vs_data \cap DOMAIN vs_schema.properties :
        TypeDiffers(vs_data[field], vs_schema.properties[field])

-----------------------------------------------------------------------------
(* Claims about durability, checked under SpecDurable.                      *)

\* C16: every write is committed on its own: when the process terminates,
\* the captures stored and the verification results inserted so far are in
\* the store on the next start.
C16_WritesSurviveCrash ==
    [][Crash => (raw_crawl' = raw_crawl /\ verified_signals' = verified_signals)]_vars

-----------------------------------------------------------------------------
(* Claims about the run of main, checked under SpecPipeline.                *)

Started == { events[i].phase : i \in { j \in 1..Len(events) : events[j].ev = "start" } }

\* a phase starts only when every phase started before it has ended, and
\* the phases start in the declared order
StrictlyOrdered ==
    /\ \A i \in 1..Len(events) :
          IF i % 2 = 1 THEN events[i].ev = "start"
          ELSE events[i].ev \in {"return", "exit"}
               /\ events[i].phase = events[i - 1].phase
    /\ \A i, j \in 1..Len(events) :
          (i < j /\ events[i].ev = "start" /\ events[j].ev = "start") =>
              PhaseIndex(events[i].phase) < PhaseIndex(events[j].phase)
    /\ \A i \in 1..(Len(events) - 1) : events[i].ev # "exit"

C19_FatalBeforeWork ==
    ppc.at \in {"config_failure", "credential_failure"} => work = {}

-----------------------------------------------------------------------------
(* Claims about termination, checked under SpecRun.                         *)

\* run_crawl has returned, having run and logged every generated query
CrawlReturned ==
    /\ lpc = "crawled"
    /\ stats.queries_run = Len(queries)
    /\ Len(query_log) = Len(queries)
    /\ \A i \in 1..Len(queries) : query_log[i].query_text = queries[i].query

\* run_verification has returned, and every candidate has a result
PassComplete ==
    /\ lpc = "done"
    /\ \A k \in 1..Len(extracted_signals) :
          \E r \in 1..Len(verified_signals) : verified_signals[r].signal_id = k

-----------------------------------------------------------------------------
(* Claims about the half-quote fallback of fuzzy_match (SpecFuzzyLong)      *)

FracEq(x, y) == x.num * y.den = y.num * x.den

\* the windows of the source the sliding window visits for a quote of
\* quote_len characters: from every step-th position that leaves room for the
\* quote, quote_len + 50 characters or what is left of the source
WindowRatios(q, s) ==
    LET step == IF Len(q) \div 4 > 1 THEN Len(q) \div 4 ELSE 1
    IN  { Ratio(q, SubSeq(s, i + 1, IF i + Len(q) + 50 < Len(s)
                                     THEN i + Len(q) + 50 ELSE Len(s))) :
            i \in { j \in 0..(Len(s) - Len(q)) : j % step = 0 } }

\* the largest of the window ratios, 0.0 without a window
IsBestWindowRatio(r, ratios) ==
    IF ratios = {} THEN FracEq(r, Frac(0, 1))
    ELSE /\ \E x \in ratios : FracEq(r, x)
         /\ \A x \in ratios : FracGE(r, x)

\* C20: the strategies of fuzzy_match are tried in the order exact substring,
\* sliding window, half-quote fallback.  The fallback decides only when no
\* window reached 0.65 and the normalized quote is longer than 50 characters;
\* it splits the quote at its midpoint and gives (passed, 0.85) when both
\* halves are literal substrings of the normalized source and (passed, 0.70)
\* when exactly one is.  For a quote of 50 characters or fewer, or when
\* neither half is present, the result is (not passed, best window ratio).
C20_HalfQuoteFallback ==
    (Matched /\ fm_quote # << >> /\ fm_source # << >>) =>
        LET q       == TrimLowerCollapse(fm_quote)
            s       == TrimLowerCollapse(fm_source)
            exact   == IsSubstring(q, s)
            ratios  == WindowRatios(q, s)
            reached == \E r \in ratios : FracGE(r, Frac(65, 100))
            long    == Len(q) > 50
            half    == Len(q) \div 2
            first   == IsSubstring(SubSeq(q, 1, half), s)
            second  == IsSubstring(SubSeq(q, half + 1, Len(q)), s)
        IN  /\ exact => fm_result.via = "exact"
            /\ (~exact /\ reached) => fm_result.via = "window"
            /\ fm_result.via \in {"half_both", "half_one"} =>
                  ~exact /\ ~reached /\ long
            /\ (~exact /\ ~reached /\ long /\ first /\ second) =>
                  /\ fm_result.passed
                  /\ fm_result.similarity = Frac(85, 100)
            /\ (~exact /\ ~reached /\ long /\ (first # second)) =>
                  /\ fm_result.passed
                  /\ fm_result.similarity = Frac(70, 100)
            /\ (~exact /\ ~reached /\ (~long \/ (~first /\ ~second))) =>
                  /\ ~fm_result.passed
                  /\ IsBestWindowRatio(fm_result.similarity, ratios)

\* a quote of 51 normalized characters, longer before normalization, whose
\* two halves occur in the source in the opposite order: the one window is
\* below the threshold and the fallback has answered (passed, 0.85)
C20_Witness ==
    /\ Matched
    /\ Len(TrimLowerCollapse(fm_quote)) = 51
    /\ Len(fm_quote) > 51
    /\ WindowRatios(TrimLowerCollapse(fm_quote), TrimLowerCollapse(fm_source)) # {}
    /\ fm_result.via = "half_both"
    /\ fm_result.passed
    /\ fm_result.similarity = Frac(85, 100)

-----------------------------------------------------------------------------
(* Claims about the checks of run_verification (SpecChecks)                 *)

CallsOf(id) == { calls[i].check : i \in { j \in 1..Len(calls) : calls[j].signal_id = id } }

\* the candidate names a company, its own or the person's
NamesCompany(s) ==
    \/ s.company_name # None /\ s.company_name # << >>
    \/ s.person_company # None /\ s.person_company # << >>

\* C21: for every candidate processed by run_verification the quote check,
\* the URL check and the duplicate check are all executed, and the company
\* check whenever a company name is present, even when the quote check has
\* failed; the persisted result carries a non-null quote_check,
\* quote_similarity, url_check, company_verified, is_duplicate and
\* final_status; the company check is skipped, with company_verified = 0 and
\* an empty payload, exactly when the candidate has no company name.
C21_AllChecksExecuted ==
    \A v \in 1..Len(verified_signals) :
        LET r == verified_signals[v]
            s == extracted_signals[r.signal_id]
            made == CallsOf(r.signal_id)
        IN  /\ {"fuzzy_match", "check_url_alive", "check_duplicate"} \subseteq made
            /\ ("verify_company_allabolag" \in made) <=> NamesCompany(s)
            /\ r.quote_check \in {"passed", "partial", "failed"}
            /\ r.quote_similarity.den > 0
            /\ r.url_check \in {"live", "redirect", "dead", "timeout"}
            /\ r.company_verified \in {0, 1}
            /\ r.is_duplicate \in {0, 1}
            /\ r.final_status \in {"verified", "weak", "rejected"}
            /\ ~NamesCompany(s) =>
                  r.company_verified = 0 /\ r.company_allabolag_data = {}

\* a candidate with a company name whose quote check failed and whose page is
\* gone has had all four checks, next to one without a company name that had
\* three
C21_Witness ==
    \E v, w \in 1..Len(verified_signals) :
        /\ verified_signals[v].quote_check = "failed"
        /\ verified_signals[v].url_check = "dead"
        /\ NamesCompany(extracted_signals[verified_signals[v].signal_id])
        /\ CallsOf(verified_signals[v].signal_id) =
              {"fuzzy_match", "check_url_alive", "verify_company_allabolag",
               "check_duplicate"}
        /\ ~NamesCompany(extracted_signals[verified_signals[w].signal_id])
        /\ CallsOf(verified_signals[w].signal_id) =
              {"fuzzy_match", "check_url_alive", "check_duplicate"}

-----------------------------------------------------------------------------
(* Claims about check_duplicate (SpecDup)                                   *)

\* the earlier records the claim names for candidate s at day `now`
StatedPrior(es, vs, s, now) ==
    LET company == Or(s.company_name, s.person_company)
    IN  { k \in 1..Len(es) :
            /\ \E v \in 1..Len(vs) :
                  vs[v].signal_id = es[k].id /\ vs[v].final_status = "verified"
            /\ es[k].created_at >= now - 7
            /\ \/ s.person_name # None /\ es[k].person_name = s.person_name
               \/ company # None /\ (es[k].company_name = company
                                       \/ es[k].person_company = company)
            /\ s.original_quote # << >>
            /\ es[k].original_quote # << >>
            /\ FracGT(Ratio(Lower(s.original_quote), Lower(es[k].original_quote)),
                      Frac(7, 10)) }

\* the row a step of the verification loop has written
RowWritten == Len(verified_signals') = Len(verified_signals) + 1

\* C22: check_duplicate flags a candidate as duplicate of a prior record r
\* whenever r has final_status = verified, was created within the trailing 7
\* days, shares the candidate's person name or the candidate's company name
\* (either one suffices) and the ratio of the two quotes is above 0.7; it
\* returns (false, none) when there is no such record or the candidate has
\* neither a person nor a company name.
C22_DuplicateEitherName ==
    [][RowWritten =>
          LET r == verified_signals'[Len(verified_signals')]
              s == extracted_signals[r.signal_id]
              prior == StatedPrior(extracted_signals, verified_signals, s, today)
          IN  /\ prior # {} =>
                    /\ r.is_duplicate = 1
                    /\ \E k \in prior : r.duplicate_of = extracted_signals[k].id
              /\ prior = {} =>
                    /\ r.is_duplicate = 0
                    /\ r.duplicate_of = NoId]_vars

-----------------------------------------------------------------------------
(* Claims about the keyword counters of a run (SpecUsage)                   *)

\* the keyword_history rows of a keyword
RowsOf(kw) == { r \in 1..Len(keyword_history) : keyword_history[r].keyword = kw }

\* the executions logged so far of queries whose text holds the keyword
ExecutionsOf(kw) ==
    Cardinality({ i \in 1..Len(query_log) : IsSubstring(kw, query_log[i].query_text) })

SomeVerified ==
    \E v \in 1..Len(verified_signals) : verified_signals[v].final_status = "verified"

\* C23: whenever a generated query is executed by run_crawl, the usage
\* counter of every tracked keyword embedded in its text is eventually
\* incremented by exactly one for that execution, and its success counter is
\* incremented when the execution produced a verified signal.
C23_UsageEventuallyCounted ==
    \A kw \in Range(RunKeywords.discovery_keywords.from_signals) :
        /\ \A n \in 1..2 :
              (RowsOf(kw) # {} /\ ExecutionsOf(kw) = n)
                  ~> (\/ ExecutionsOf(kw) > n
                      \/ \A r \in RowsOf(kw) : keyword_history[r].times_used = n)
        /\ (RowsOf(kw) # {} /\ ExecutionsOf(kw) > 0 /\ SomeVerified)
              ~> (\A r \in RowsOf(kw) : keyword_history[r].times_produced_signal > 0)

-----------------------------------------------------------------------------
(* Claims about retired terms (SpecEvolve)                                  *)

\* run_phase6_keywords has processed a suggestion response
ResponseProcessed == evolve_last.op \in {"update_keywords_file", "no_new_keywords"}

\* C24: after run_phase6_keywords has processed a suggestion response, no
\* term of its retire_candidates is in from_signals or adjacent_terms,
\* whether or not the response names new keywords.
C24_RetiredLeavePools ==
    ResponseProcessed =>
        \A t \in Range(evolve_last.retire) : t \notin Range(DiscoveryPool)

\* the same for the responses that name at least one new keyword, which are
\* the ones that reach update_keywords_file
C24_RetiredLeavePoolsWithNew ==
    evolve_last.op = "update_keywords_file" =>
        \A t \in Range(evolve_last.retire) : t \notin Range(DiscoveryPool)

-----------------------------------------------------------------------------
(* Claims about run_phase2 over successive runs (SpecExtract)               *)

\* the extracted_signals rows that reference a capture
SignalsOf(es, source_hash) == { k \in 1..Len(es) : es[k].source_hash = source_hash }

\* a capture has just been sent to the extraction model
CaptureSent == Len(calls') = Len(calls) + 1

\* C25: a capture is sent to the extraction model only when no
\* extracted_signals row references it, and a capture that has rows keeps
\* exactly these rows through every step of every run, terminated or not.
C25_ExtractionKeyedOnAbsence ==
    [][/\ CaptureSent =>
            SignalsOf(extracted_signals, calls'[Len(calls')].source_hash) = {}
       /\ \A i \in 1..Len(raw_crawl) :
            LET h == raw_crawl[i].source_hash
            IN  SignalsOf(extracted_signals, h) # {} =>
                    SignalsOf(extracted_signals', h) = SignalsOf(extracted_signals, h)
      ]_vars

\* a capture without signals has been sent in two runs while the capture
\* sent between the two, which got signals, was sent once
C25_Witness ==
    /\ Len(calls) = 3
    /\ calls[1].source_hash = calls[3].source_hash
    /\ calls[2].source_hash # calls[1].source_hash
    /\ SignalsOf(extracted_signals, calls[2].source_hash) # {}
    /\ SignalsOf(extracted_signals, calls[1].source_hash) = {}

-----------------------------------------------------------------------------
(* Claims about the statistics of run_crawl (SpecRun)                       *)

\* run_crawl has left its loop and still holds its stats dict
CrawlEnded == lpc = "crawled"

\* the result pages run_crawl has gone through: every search of the run
\* returned at most five results, so every result found was processed
PagesProcessed == stats.results_found

\* C26: a result page skipped for its content (a refused or failed fetch, or
\* a cleaned text below 100 characters) adds no raw_crawl row, and at the end
\* of run_crawl the result pages processed are as many as pages_stored +
\* duplicates + errors.
C26_SkipsCounted ==
    /\ [](CrawlEnded =>
             PagesProcessed = stats.pages_stored + stats.duplicates + stats.errors)
    /\ [][last_store'.op = "crawl_skipped" => raw_crawl' = raw_crawl]_vars

\* the skipped pages are not persisted
C26_SkipsNotPersisted ==
    [][last_store'.op = "crawl_skipped" => raw_crawl' = raw_crawl]_vars

-----------------------------------------------------------------------------
(* Claims about the sleeps of run_crawl (SpecPause)                         *)

\* the step from the end of a query's results to the next query
QueryEnds == lpc = "results" /\ lpc' = "query"

\* a search_google call that is not the first of the run
LaterSearch == stats'.queries_run = stats.queries_run + 1 /\ stats.queries_run >= 1

\* C27: when the twenty queries of a batch have all returned no result, the
\* 60-second pause is taken before the next query, whatever earlier queries
\* of the run returned; and between two successive search_google calls the
\* randomized delay is taken.
C27_PauseAfterEmptyBatch ==
    [][/\ (QueryEnds /\ stats.queries_run % BatchSize = 0 /\ zero_run >= BatchSize)
            => "pause" \in Range(sleeps')
       /\ LaterSearch => "delay" \in Range(sleeps)
      ]_vars

\* the delay alone
C27_DelayBetweenSearches ==
    [][LaterSearch => "delay" \in Range(sleeps)]_vars

-----------------------------------------------------------------------------
(* Claims about verdict, flags and scores (SpecCred)                        *)

\* the red flags of a sponsorship marker or of a path marker
MarkerFlags(red_flags) ==
    { i \in 1..Len(red_flags) :
        red_flags[i].kind \in {"sponsored_marker", "url_contains"} }

\* C28: for every URL and markup the verdict is accept exactly when red_flags
\* is empty; auto_reject is true exactly when red_flags holds a
\* sponsored_marker or url_contains entry; both scores are 10 exactly when
\* auto_reject is true, and otherwise unset and stored as 5.
C28_VerdictFlagsScores ==
    cred_result.done =>
        LET check == cred_result.check
        IN  /\ (cred_result.verdict = "accept") <=> (check.red_flags = << >>)
            /\ check.auto_reject <=> (MarkerFlags(check.red_flags) # {})
            /\ check.auto_reject =>
                  /\ check.sales_intent_score = <<10>>
                  /\ check.objectivity_score = <<10>>
                  /\ cred_result.sales_intent_score = 10
                  /\ cred_result.objectivity_score = 10
            /\ ~check.auto_reject =>
                  /\ check.sales_intent_score = Unset
                  /\ check.objectivity_score = Unset
                  /\ cred_result.sales_intent_score = 5
                  /\ cred_result.objectivity_score = 5

\* a row with a red flag that is no marker: not auto-rejected, not accepted,
\* its scores unset and stored as 5
C28_Witness ==
    /\ cred_result.done
    /\ cred_result.check.red_flags = <<RedFlag("non_nordic_geography", "")>>
    /\ ~cred_result.check.auto_reject
    /\ cred_result.verdict = "review"
    /\ cred_result.check.sales_intent_score = Unset
    /\ cred_result.sales_intent_score = 5

-----------------------------------------------------------------------------
(* Claims about the duplicate columns of verified_signals (SpecChecks)      *)

\* the result written before row v for the candidate `id`, with the status
\* verified
VerifiedBefore(v, id) ==
    \E w \in 1..(v - 1) :
        /\ verified_signals[w].signal_id = id
        /\ verified_signals[w].final_status = "verified"

\* C29: in every verified_signals row is_duplicate is 1 exactly when
\* duplicate_of is not NULL, duplicate_of is not the row's own signal_id, and
\* duplicate_of names a candidate whose result, written before this row (in
\* an earlier pass or earlier in the same pass), has final_status verified.
C29_DuplicateColumns ==
    \A v \in 1..Len(verified_signals) :
        LET row == verified_signals[v]
        IN  /\ (row.is_duplicate = 1) <=> (row.duplicate_of # NoId)
            /\ row.is_duplicate \in {0, 1}
            /\ row.duplicate_of # row.signal_id
            /\ row.duplicate_of # NoId => VerifiedBefore(v, row.duplicate_of)

\* a row written as the duplicate of a candidate verified before it, next to
\* a row that is no duplicate
C29_Witness ==
    \E v, w \in 1..Len(verified_signals) :
        /\ verified_signals[v].is_duplicate = 1
        /\ verified_signals[v].duplicate_of = verified_signals[w].signal_id
        /\ verified_signals[w].is_duplicate = 0
        /\ verified_signals[w].duplicate_of = NoId

-----------------------------------------------------------------------------
(* Claims about candidates without a quote (SpecIngest)                     *)

\* the records of an answer that state a quote or a problem, in their order
Kept(response) ==
    SelectSeq(response, LAMBDA s : s.original_quote # << >> \/ s.expressed_problem)

\* the extracted_signals rows that the records `kept` of a capture make
RowsFor(kept, source_hash, first_id, now) ==
    [i \in 1..Len(kept) |->
        [id |-> first_id + i - 1, source_hash |-> source_hash,
         original_quote |-> kept[i].original_quote,
         expressed_problem |-> kept[i].expressed_problem,
         person_name |-> kept[i].person_name,
         company_name |-> kept[i].company_name,
         person_company |-> kept[i].person_company,
         created_at |-> now]]

\* an answer has just been parsed and stored: the new rows are those of the
\* records with a quote or a problem, in the answer's order
IngestsKept ==
    calls' # calls =>
        LET c == calls'[1]
        IN  extracted_signals' =
                extracted_signals \o RowsFor(Kept(c.response), c.source_hash,
                                            Len(extracted_signals) + 1, today)

\* the results of the candidates without a quote
NoQuoteRejected ==
    \A v \in 1..Len(verified_signals) :
        LET row == verified_signals[v]
        IN  extracted_signals[row.signal_id].original_quote = << >> =>
                /\ FracEq(row.quote_similarity, Frac(0, 1))
                /\ row.quote_check = "failed"
                /\ row.final_status = "rejected"

=============================================================================
